---- MODULE Spec2Model ----
(***************************************************************************)
(* Model of the sounding_app capacity engine (src/app/cli.py and its copy  *)
(* in src/app/ops_cli.py), the VCF step (src/app/vcf54b.py), the ops-cli   *)
(* reading-add command with the operational store (src/app/ops_db.py) and  *)
(* the fuel sheet's calc_one (src/app/ui_fuel_sheet.py).                    *)
(*                                                                         *)
(* Numbers.  Python floats and SQLite REALs are modelled as exact          *)
(* rationals <<n, d>> in lowest terms with d > 0; rounding of the binary   *)
(* floating point is outside the model.  NULL / None of a numeric value is *)
(* the empty tuple.  Strings are sequences of one-character strings; None  *)
(* of a string is <<"None">>.                                              *)
(*                                                                         *)
(* Specifications.  Spec runs the volume command of cli.py and the fuel    *)
(* sheet's calc_one over the calibration table; SpecOps runs the           *)
(* reading-add command of ops_cli.py over the operational store.           *)
(*                                                                         *)
(* A value computed once and read several times (a local variable of the   *)
(* code) is passed on as an operator argument or bound by a quantifier     *)
(* over a one-element set.                                                 *)
(***************************************************************************)
EXTENDS Integers, Sequences, FiniteSets, TLC

VARIABLES
    readings,      \* sounding.db, table readings: the calibration rows
    ops_tanks,     \* ops.db, table tanks: name -> row
    ops_readings,  \* ops.db, table readings: the rows in insertion order
    pc,            \* "ready": no command running; "done": a command has ended
    out,           \* what the command that ended has shown or raised
    calls,         \* the invocations of _compute_volumes under way, by caller
    cards,         \* main_launcher.py: the fields of each AppCard
    children,      \* the processes the launcher has started, by number
    ops_sessions,  \* ops.db, table sessions: the rows in insertion order
    loader         \* load_normalized_to_db.py: where main is, the next CSV

vars == <<readings, ops_tanks, ops_readings, pc, out, calls, cards, children, ops_sessions, loader>>

\* what the commands that run one at a time leave alone
aux == <<calls, cards, children, ops_sessions, loader>>

\* what the invocations of _compute_volumes leave alone
not_calls == <<readings, ops_tanks, ops_readings, pc, out, cards, children, ops_sessions, loader>>

\* what the launcher leaves alone
not_launcher == <<readings, ops_tanks, ops_readings, pc, out, calls, ops_sessions, loader>>

\* what the session commands leave alone
not_sessions == <<readings, ops_tanks, ops_readings, calls, cards, children, loader>>

\* what the loader leaves alone
not_loader == <<ops_tanks, ops_readings, pc, out, calls, cards, children, ops_sessions>>

\* ------------------------------------------------------------------
\* Rationals

NULL == <<>>

None == <<"None">>

Abs(i) == IF i < 0 THEN -i ELSE i

RECURSIVE GCD(_, _)
GCD(a, b) == IF b = 0 THEN a ELSE GCD(b, a % b)

Frac(n, d) ==
    LET g == GCD(Abs(n), Abs(d))
        s == IF d < 0 THEN -1 ELSE 1
    IN  <<(s * n) \div g, (s * d) \div g>>

Num(i) == <<i, 1>>

\* sums and comparisons over the least common denominator
RAdd(a, b) ==
    Frac(a[1] * (b[2] \div GCD(a[2], b[2])) + b[1] * (a[2] \div GCD(a[2], b[2])),
         (a[2] \div GCD(a[2], b[2])) * b[2])

RSub(a, b) == RAdd(a, <<-b[1], b[2]>>)

RMul(a, b) == Frac(a[1] * b[1], a[2] * b[2])

RDiv(a, b) == Frac(a[1] * b[2], a[2] * b[1])

RLt(a, b) ==
    a[1] * (b[2] \div GCD(a[2], b[2])) < b[1] * (a[2] \div GCD(a[2], b[2]))

RLe(a, b) ==
    a[1] * (b[2] \div GCD(a[2], b[2])) <= b[1] * (a[2] \div GCD(a[2], b[2]))

RAbs(a) == <<Abs(a[1]), a[2]>>

RMax(a, b) == IF RLt(b, a) THEN a ELSE b

RMin(a, b) == IF RLt(a, b) THEN a ELSE b

\* ------------------------------------------------------------------
\* Strings: sequences of one-character strings

P1 == <<"P", "1">>

P2 == <<"P", "2">>

S1 == <<"S", "-", "1">>

S2 == <<"S", "-", "2">>

\* Python truthiness of an Optional[str]: None and "" are false
Truthy(s) == s # None /\ s # <<>>

\* ------------------------------------------------------------------
\* The calibration table (sounding.db, table readings)

BaseRow(name, axis, x, trim, vol) ==
    [name |-> name,
     sounding_cm |-> IF axis = "sounding_cm" THEN x ELSE NULL,
     ullage_cm |-> IF axis = "ullage_cm" THEN x ELSE NULL,
     trim |-> trim, heel |-> None,
     volume_m3 |-> vol, correction_m3 |-> NULL]

HeelRow(name, axis, x, trim, code, corr) ==
    [name |-> name,
     sounding_cm |-> IF axis = "sounding_cm" THEN x ELSE NULL,
     ullage_cm |-> IF axis = "ullage_cm" THEN x ELSE NULL,
     trim |-> trim, heel |-> code,
     volume_m3 |-> NULL, correction_m3 |-> corr]

\* straight-line table of two nodes, x = 0 and x = 100
Line2(name, axis, trim, v0, v100) ==
    <<BaseRow(name, axis, Num(0), trim, Num(v0)),
      BaseRow(name, axis, Num(100), trim, Num(v100))>>

Heel2(name, axis, trim, code, c0, c100) ==
    <<HeelRow(name, axis, Num(0), trim, code, Num(c0)),
      HeelRow(name, axis, Num(100), trim, code, Num(c100))>>

\* The normalized CSVs, one per tank, in the order the loader appends them.
\*   T1  sounding table at trim 0, no heel rows
\*   T2  sounding tables at trims -2 and 2 only
\*   T3  three-node sounding table at trim 0; trims 1 and 3 carry heel rows only
\*   T4  (no rows at all)
\*   T5  ullage table at trim 0, sounding table at trim 2
\*   T6  sounding table at trim 0, heel rows at trim 0 (P1) and at trim NULL
\*   T7  sounding table at trim 0 with a negative volume (calibration anomaly)
\*   T8  sounding table at trim 0, heel rows at trim 0 under the code "x1" as
\*       the sheet's column header HC.x1 spells it (normalize.py keeps the case)
CsvRows ==
       Line2("T1", "sounding_cm", Num(0), 0, 100)
    \o Line2("T2", "sounding_cm", Num(-2), 0, 90)
    \o Line2("T2", "sounding_cm", Num(2), 0, 110)
    \o <<BaseRow("T3", "sounding_cm", Num(0), Num(0), Num(0)),
         BaseRow("T3", "sounding_cm", Num(50), Num(0), Num(40)),
         BaseRow("T3", "sounding_cm", Num(100), Num(0), Num(100))>>
    \o Heel2("T3", "sounding_cm", Num(1), P1, 1, 3)
    \o Heel2("T3", "sounding_cm", Num(3), P1, 2, 6)
    \o Line2("T5", "ullage_cm", Num(0), 100, 0)
    \o Line2("T5", "sounding_cm", Num(2), 0, 120)
    \o Line2("T6", "sounding_cm", Num(0), 0, 100)
    \o Heel2("T6", "sounding_cm", Num(0), P1, -6, -2)
    \o Heel2("T6", "sounding_cm", NULL, P1, -10, -4)
    \o Heel2("T6", "sounding_cm", NULL, P2, -20, -8)
    \o Heel2("T6", "sounding_cm", NULL, S1, 10, 4)
    \o Heel2("T6", "sounding_cm", NULL, S2, 25, 9)
    \o Line2("T7", "sounding_cm", Num(0), -5, 95)
    \o Line2("T8", "sounding_cm", Num(0), 0, 100)
    \o Heel2("T8", "sounding_cm", Num(0), <<"x", "1">>, 7, 7)

\* the table after load_normalized_to_db: every CSV row, with its rowid
LoadedRows ==
    {[id |-> i, row |-> CsvRows[i]] : i \in 1..Len(CsvRows)}

Tanks == {"T1", "T2", "T3", "T4", "T5", "T6", "T7", "T8"}

AxisOf(rec, axis_field) ==
    IF axis_field = "sounding_cm" THEN rec.row.sounding_cm ELSE rec.row.ullage_cm

FieldOf(rec, field) ==
    IF field = "volume_m3" THEN rec.row.volume_m3 ELSE rec.row.correction_m3

\* ORDER BY axis_field ASC, then SELECT axis_field, field: the rows as a
\* sequence of <<X, Y>> pairs
RECURSIVE OrderByAxis(_, _, _)
OrderByAxis(S, axis_field, field) ==
    IF S = {} THEN <<>>
    ELSE LET m == CHOOSE r \in S :
                    \A o \in S :
                        \/ RLt(AxisOf(r, axis_field), AxisOf(o, axis_field))
                        \/ /\ AxisOf(r, axis_field) = AxisOf(o, axis_field)
                           /\ r.id <= o.id
         IN  <<<<AxisOf(m, axis_field), FieldOf(m, field)>>>>
                 \o OrderByAxis(S \ {m}, axis_field, field)

RECURSIVE SortNums(_)
SortNums(S) ==
    IF S = {} THEN <<>>
    ELSE LET m == CHOOSE a \in S : \A b \in S : RLe(a, b)
         IN  <<m>> \o SortNums(S \ {m})

\* ------------------------------------------------------------------
\* cli.py: numeric interpolation and the base-volume resolver

cli_interp(x, x0, y0, x1, y1) ==
    IF x0 = NULL \/ x1 = NULL THEN NULL
    ELSE IF x1 = x0 THEN y0
    ELSE LET t == RDiv(RSub(x, x0), RSub(x1, x0))
         IN  RAdd(RMul(RSub(Num(1), t), y0), RMul(t, y1))

\* the trim tolerance of the exact-trim query, 1e-6 = 1 / TrimTolDen
TrimTolDen == 1000000

\* Faulty variant of the exact-trim query: the trim condition is left out, so
\* the rows of every trim of the tank come back
cli_run_query_any_trim(db, name, trim, heel_code, axis_field, field) ==
    OrderByAxis(
        {r \in db :
            /\ r.row.name = name
            /\ r.row.trim # NULL
            /\ IF heel_code = None THEN r.row.heel = None
               ELSE r.row.heel = heel_code
            /\ AxisOf(r, axis_field) # NULL
            /\ FieldOf(r, field) # NULL},
        axis_field, field)

\* WHERE name=? AND trim IS NOT NULL AND ABS(CAST(trim AS REAL) - ?) < 1e-6
\*   AND (heel IS NULL | heel = ?) AND axis IS NOT NULL AND field IS NOT NULL
cli_run_query_exact_trim(db, name, trim, heel_code, axis_field, field) ==
    OrderByAxis(
        {r \in db :
            /\ r.row.name = name
            /\ r.row.trim # NULL
            /\ RLt(RAbs(RSub(r.row.trim, trim)), Frac(1, TrimTolDen))
            /\ IF heel_code = None THEN r.row.heel = None
               ELSE r.row.heel = heel_code
            /\ AxisOf(r, axis_field) # NULL
            /\ FieldOf(r, field) # NULL},
        axis_field, field)

\* WHERE name=? AND trim IS NULL AND heel = ? AND axis, field IS NOT NULL
cli_run_query_trim_null_for_heel(db, name, heel_code, axis_field, field) ==
    OrderByAxis(
        {r \in db :
            /\ r.row.name = name
            /\ r.row.trim = NULL
            /\ r.row.heel = heel_code
            /\ AxisOf(r, axis_field) # NULL
            /\ FieldOf(r, field) # NULL},
        axis_field, field)

\* Faulty variant: the rows without a trim are never consulted
cli_heel_fallback_never(rows, db, name, heel_code, axis_field, field) == rows

\* 2) if heel rows were requested and none found, the trim IS NULL fallback
cli_heel_fallback(rows, db, name, heel_code, axis_field, field) ==
    IF rows = <<>> /\ heel_code # None
    THEN cli_run_query_trim_null_for_heel(db, name, heel_code, axis_field, field)
    ELSE rows

cli_rows_for(db, name, trim, heel_code, axis_field, field) ==
    cli_heel_fallback(
        cli_run_query_exact_trim(db, name, trim, heel_code, axis_field, field),
        db, name, heel_code, axis_field, field)

\* Faulty variant of the loop: without the break, hi ends as the last row at
\* or above xx instead of the first
cli_find_neighbors_no_break(rows, i, xx, lo) ==
    LET le == {j \in i..Len(rows) : RLe(rows[j][1], xx)}
        ge == {j \in i..Len(rows) : RLe(xx, rows[j][1])}
    IN  <<IF le = {} THEN lo ELSE rows[CHOOSE j \in le : \A k \in le : k <= j],
          IF ge = {} THEN NULL ELSE rows[CHOOSE j \in ge : \A k \in ge : k <= j]>>

\* the loop "for X, Y in rows" from row i on, lo as found so far: <<lo, hi>>
RECURSIVE cli_find_neighbors(_, _, _, _)
cli_find_neighbors(rows, i, xx, lo) ==
    IF i > Len(rows) THEN <<lo, NULL>>
    ELSE IF rows[i][1] = NULL THEN cli_find_neighbors(rows, i + 1, xx, lo)
    ELSE IF RLe(xx, rows[i][1])
         THEN <<IF RLe(rows[i][1], xx) THEN rows[i] ELSE lo, rows[i]>>
    ELSE cli_find_neighbors(rows, i + 1, xx,
                            IF RLe(rows[i][1], xx) THEN rows[i] ELSE lo)

\* field = "correction_m3" if heel_code else "volume_m3"
cli_field_of(heel_code) == IF Truthy(heel_code) THEN "correction_m3" ELSE "volume_m3"

\* lo / hi as the loop left them, None replaced by the first / last row:
\* <<x0, y0, x1, y1>>
cli_pair_of(rows, nb) ==
    LET lo == IF nb[1] = NULL THEN rows[1] ELSE nb[1]
        hi == IF nb[2] = NULL THEN rows[Len(rows)] ELSE nb[2]
    IN  <<lo[1], lo[2], hi[1], hi[2]>>

\* Faulty variant: no clamp and no neighbour search, the pair is the two ends
\* of the table, so _interp extrapolates for an x outside of it
cli_pair_in_rows_unclamped(rows, x) ==
    IF rows = <<>> THEN <<NULL, NULL, NULL, NULL>>
    ELSE <<rows[1][1], rows[1][2], rows[Len(rows)][1], rows[Len(rows)][2]>>

\* the rows found: none gives four Nones, else x is clamped to the table
\* bounds and its neighbours are searched
cli_pair_in_rows(rows, x) ==
    IF rows = <<>> THEN <<NULL, NULL, NULL, NULL>>
    ELSE cli_pair_of(rows,
            cli_find_neighbors(rows, 1,
                RMax(RMin(x, rows[Len(rows)][1]), rows[1][1]), NULL))

cli_nearest_pair_along(db, name, trim, heel_code, axis_field, x) ==
    cli_pair_in_rows(
        cli_rows_for(db, name, trim, heel_code, axis_field, cli_field_of(heel_code)),
        x)

\* SELECT DISTINCT CAST(trim AS REAL) ... WHERE name=? AND trim IS NOT NULL
\*   ORDER BY CAST(trim AS REAL): the trims of the tank, ascending
cli_get_available_trims(db, name) ==
    SortNums({r.row.trim : r \in {q \in db : q.row.name = name /\ q.row.trim # NULL}})

\* the loop "for tv in trims" of _nearest_trims from i on: <<lo, hi>>
RECURSIVE cli_trim_neighbors(_, _, _, _)
cli_trim_neighbors(trims, i, t, lo) ==
    IF i > Len(trims) THEN <<lo, NULL>>
    ELSE IF RLe(t, trims[i])
         THEN <<IF RLe(trims[i], t) THEN trims[i] ELSE lo, trims[i]>>
    ELSE cli_trim_neighbors(trims, i + 1, t, IF RLe(trims[i], t) THEN trims[i] ELSE lo)

\* Faulty variant: a missing neighbour is replaced by the far end of the list,
\* so a trim outside the available range gets a bracket to extrapolate over
cli_trim_pair_of_far_end(trims, nb) ==
    <<IF nb[1] = NULL THEN trims[Len(trims)] ELSE nb[1],
      IF nb[2] = NULL THEN trims[1] ELSE nb[2]>>

cli_trim_pair_of(trims, nb) ==
    <<IF nb[1] = NULL THEN trims[1] ELSE nb[1],
      IF nb[2] = NULL THEN trims[Len(trims)] ELSE nb[2]>>

cli_nearest_trims(trims, t) ==
    IF trims = <<>> THEN <<NULL, NULL>>
    ELSE IF \E i \in 1..Len(trims) : trims[i] = t THEN <<t, t>>
    ELSE cli_trim_pair_of(trims, cli_trim_neighbors(trims, 1, t, NULL))

\* None if x0 is None else _interp(x, x0, y0, x1, y1)
cli_interp_pair(x, p) ==
    IF p[1] = NULL THEN NULL ELSE cli_interp(x, p[1], p[2], p[3], p[4])

cli_base_volume_at_trim(db, name, trim, axis_field, x) ==
    cli_interp_pair(x, cli_nearest_pair_along(db, name, trim, None, axis_field, x))

\* Faulty variant: between two resolving trims the lower trim's volume is
\* returned, without interpolating over trim
cli_cross_trim_result_lower(trim, t0, t1, v0, v1) ==
    IF t0 = t1 THEN v0
    ELSE IF v0 = NULL \/ v1 = NULL THEN (IF v1 = NULL THEN v0 ELSE v1)
    ELSE v0

\* Faulty variant: a bracket with an unresolvable side gives no volume
cli_cross_trim_result_strict(trim, t0, t1, v0, v1) ==
    IF t0 = t1 THEN v0
    ELSE IF v0 = NULL \/ v1 = NULL THEN NULL
    ELSE cli_interp(trim, t0, v0, t1, v1)

\* the end of _base_volume_cross_trim, v0 and v1 resolved at t0 and t1
cli_cross_trim_result(trim, t0, t1, v0, v1) ==
    IF t0 = t1 THEN v0
    ELSE IF v0 = NULL \/ v1 = NULL THEN (IF v1 = NULL THEN v0 ELSE v1)
    ELSE cli_interp(trim, t0, v0, t1, v1)

cli_cross_trim_between(db, name, trim, axis_field, x, tt) ==
    cli_cross_trim_result(trim, tt[1], tt[2],
        cli_base_volume_at_trim(db, name, tt[1], axis_field, x),
        cli_base_volume_at_trim(db, name, tt[2], axis_field, x))

cli_cross_trim_over(db, name, trim, axis_field, x, trims) ==
    IF trims = <<>> THEN NULL
    ELSE cli_cross_trim_between(db, name, trim, axis_field, x,
                                cli_nearest_trims(trims, trim))

cli_base_volume_cross_trim(db, name, trim, sounding, ullage) ==
    cli_cross_trim_over(db, name, trim,
        IF sounding # NULL THEN "sounding_cm" ELSE "ullage_cm",
        IF sounding # NULL THEN sounding ELSE ullage,
        cli_get_available_trims(db, name))

\* v if v is not None else _base_volume_cross_trim(...)
cli_exact_or_cross_trim(v, db, name, trim, sounding, ullage) ==
    IF v # NULL THEN v
    ELSE cli_base_volume_cross_trim(db, name, trim, sounding, ullage)

cli_base_volume(db, name, trim, sounding, ullage) ==
    IF sounding # NULL
    THEN cli_exact_or_cross_trim(
             cli_base_volume_at_trim(db, name, trim, "sounding_cm", sounding),
             db, name, trim, sounding, NULL)
    ELSE IF ullage # NULL
    THEN cli_exact_or_cross_trim(
             cli_base_volume_at_trim(db, name, trim, "ullage_cm", ullage),
             db, name, trim, NULL, ullage)
    ELSE NULL

\* 0.0 if x0 is None else float(_interp(x, x0, y0, x1, y1))
cli_corr_pair(x, p) ==
    IF p[1] = NULL THEN Num(0) ELSE cli_interp(x, p[1], p[2], p[3], p[4])

cli_heel_corr_at(db, name, trim, heel_code, sounding, ullage) ==
    cli_corr_pair(IF sounding # NULL THEN sounding ELSE ullage,
        cli_nearest_pair_along(db, name, trim, heel_code,
            IF sounding # NULL THEN "sounding_cm" ELSE "ullage_cm",
            IF sounding # NULL THEN sounding ELSE ullage))

\* ------------------------------------------------------------------
\* ops_cli.py (the helpers copied from cli.py): numeric interpolation and the base-volume resolver

ops_interp(x, x0, y0, x1, y1) ==
    IF x0 = NULL \/ x1 = NULL THEN NULL
    ELSE IF x1 = x0 THEN y0
    ELSE LET t == RDiv(RSub(x, x0), RSub(x1, x0))
         IN  RAdd(RMul(RSub(Num(1), t), y0), RMul(t, y1))

\* run_query(require_trim): WHERE name=? AND (trim IS NULL | CAST(trim AS
\*   REAL) = ?) AND (heel IS NULL | heel = ?) AND axis, field IS NOT NULL
ops_run_query(db, name, trim, heel_code, axis_field, field, require_trim) ==
    OrderByAxis(
        {r \in db :
            /\ r.row.name = name
            /\ IF require_trim /\ trim # NULL
               THEN r.row.trim # NULL /\ r.row.trim = trim
               ELSE r.row.trim = NULL
            /\ IF heel_code = None THEN r.row.heel = None
               ELSE r.row.heel = heel_code
            /\ AxisOf(r, axis_field) # NULL
            /\ FieldOf(r, field) # NULL},
        axis_field, field)

\* if not rows and heel_code is not None: rows = run_query(require_trim=False)
ops_heel_fallback(rows, db, name, trim, heel_code, axis_field, field) ==
    IF rows = <<>> /\ heel_code # None
    THEN ops_run_query(db, name, trim, heel_code, axis_field, field, FALSE)
    ELSE rows

ops_rows_for(db, name, trim, heel_code, axis_field, field) ==
    ops_heel_fallback(
        ops_run_query(db, name, trim, heel_code, axis_field, field, TRUE),
        db, name, trim, heel_code, axis_field, field)

\* the loop "for xx, yy in rows" from row i on, lo as found so far: <<lo, hi>>
RECURSIVE ops_find_neighbors(_, _, _, _)
ops_find_neighbors(rows, i, x, lo) ==
    IF i > Len(rows) THEN <<lo, NULL>>
    ELSE IF RLe(x, rows[i][1])
         THEN <<IF RLe(rows[i][1], x) THEN rows[i] ELSE lo, rows[i]>>
    ELSE ops_find_neighbors(rows, i + 1, x,
                            IF RLe(rows[i][1], x) THEN rows[i] ELSE lo)

\* field = "correction_m3" if heel_code else "volume_m3"
ops_field_of(heel_code) == IF Truthy(heel_code) THEN "correction_m3" ELSE "volume_m3"

\* lo / hi as the loop left them, None replaced by the first / last row:
\* <<x0, y0, x1, y1>>
ops_pair_of(rows, nb) ==
    LET lo == IF nb[1] = NULL THEN rows[1] ELSE nb[1]
        hi == IF nb[2] = NULL THEN rows[Len(rows)] ELSE nb[2]
    IN  <<lo[1], lo[2], hi[1], hi[2]>>

\* the rows found: none gives four Nones, else x is clamped to the table
\* bounds and its neighbours are searched
ops_pair_in_rows(rows, x) ==
    IF rows = <<>> THEN <<NULL, NULL, NULL, NULL>>
    ELSE ops_pair_of(rows,
            ops_find_neighbors(rows, 1,
                RMax(RMin(x, rows[Len(rows)][1]), rows[1][1]), NULL))

ops_nearest_pair_along(db, name, trim, heel_code, axis_field, x) ==
    ops_pair_in_rows(
        ops_rows_for(db, name, trim, heel_code, axis_field, ops_field_of(heel_code)),
        x)

\* SELECT DISTINCT CAST(trim AS REAL) ... WHERE name=? AND trim IS NOT NULL
\*   ORDER BY CAST(trim AS REAL): the trims of the tank, ascending
ops_get_available_trims(db, name) ==
    SortNums({r.row.trim : r \in {q \in db : q.row.name = name /\ q.row.trim # NULL}})

\* the loop "for tv in trims" of _nearest_trims from i on: <<lo, hi>>
RECURSIVE ops_trim_neighbors(_, _, _, _)
ops_trim_neighbors(trims, i, t, lo) ==
    IF i > Len(trims) THEN <<lo, NULL>>
    ELSE IF RLe(t, trims[i])
         THEN <<IF RLe(trims[i], t) THEN trims[i] ELSE lo, trims[i]>>
    ELSE ops_trim_neighbors(trims, i + 1, t, IF RLe(trims[i], t) THEN trims[i] ELSE lo)

ops_trim_pair_of(trims, nb) ==
    <<IF nb[1] = NULL THEN trims[1] ELSE nb[1],
      IF nb[2] = NULL THEN trims[Len(trims)] ELSE nb[2]>>

ops_nearest_trims(trims, t) ==
    IF trims = <<>> THEN <<NULL, NULL>>
    ELSE IF \E i \in 1..Len(trims) : trims[i] = t THEN <<t, t>>
    ELSE ops_trim_pair_of(trims, ops_trim_neighbors(trims, 1, t, NULL))

\* None if x0 is None else _interp(x, x0, y0, x1, y1)
ops_interp_pair(x, p) ==
    IF p[1] = NULL THEN NULL ELSE ops_interp(x, p[1], p[2], p[3], p[4])

ops_base_volume_at_trim(db, name, trim, axis_field, x) ==
    ops_interp_pair(x, ops_nearest_pair_along(db, name, trim, None, axis_field, x))

\* the end of _base_volume_cross_trim, v0 and v1 resolved at t0 and t1
ops_cross_trim_result(trim, t0, t1, v0, v1) ==
    IF t0 = t1 THEN v0
    ELSE IF v0 = NULL \/ v1 = NULL THEN (IF v1 = NULL THEN v0 ELSE v1)
    ELSE ops_interp(trim, t0, v0, t1, v1)

ops_cross_trim_between(db, name, trim, axis_field, x, tt) ==
    ops_cross_trim_result(trim, tt[1], tt[2],
        ops_base_volume_at_trim(db, name, tt[1], axis_field, x),
        ops_base_volume_at_trim(db, name, tt[2], axis_field, x))

ops_cross_trim_over(db, name, trim, axis_field, x, trims) ==
    IF trims = <<>> THEN NULL
    ELSE ops_cross_trim_between(db, name, trim, axis_field, x,
                                ops_nearest_trims(trims, trim))

ops_base_volume_cross_trim(db, name, trim, sounding, ullage) ==
    ops_cross_trim_over(db, name, trim,
        IF sounding # NULL THEN "sounding_cm" ELSE "ullage_cm",
        IF sounding # NULL THEN sounding ELSE ullage,
        ops_get_available_trims(db, name))

\* v if v is not None else _base_volume_cross_trim(...)
ops_exact_or_cross_trim(v, db, name, trim, sounding, ullage) ==
    IF v # NULL THEN v
    ELSE ops_base_volume_cross_trim(db, name, trim, sounding, ullage)

ops_base_volume(db, name, trim, sounding, ullage) ==
    IF sounding # NULL
    THEN ops_exact_or_cross_trim(
             ops_base_volume_at_trim(db, name, trim, "sounding_cm", sounding),
             db, name, trim, sounding, NULL)
    ELSE IF ullage # NULL
    THEN ops_exact_or_cross_trim(
             ops_base_volume_at_trim(db, name, trim, "ullage_cm", ullage),
             db, name, trim, NULL, ullage)
    ELSE NULL

\* 0.0 if x0 is None else float(_interp(x, x0, y0, x1, y1))
ops_corr_pair(x, p) ==
    IF p[1] = NULL THEN Num(0) ELSE ops_interp(x, p[1], p[2], p[3], p[4])

ops_heel_corr_at(db, name, trim, heel_code, sounding, ullage) ==
    ops_corr_pair(IF sounding # NULL THEN sounding ELSE ullage,
        ops_nearest_pair_along(db, name, trim, heel_code,
            IF sounding # NULL THEN "sounding_cm" ELSE "ullage_cm",
            IF sounding # NULL THEN sounding ELSE ullage))

\* ------------------------------------------------------------------
\* Python string operations used by _parse_heel, over sequences of characters

Digits == {"0", "1", "2", "3", "4", "5", "6", "7", "8", "9"}

DigitVal(c) ==
    CASE c = "0" -> 0 [] c = "1" -> 1 [] c = "2" -> 2 [] c = "3" -> 3
      [] c = "4" -> 4 [] c = "5" -> 5 [] c = "6" -> 6 [] c = "7" -> 7
      [] c = "8" -> 8 [] c = "9" -> 9

IsSpace(c) == c = " "

\* str.upper(), for the letters the inputs use
UpperChar(c) ==
    CASE c = "p" -> "P" [] c = "s" -> "S" [] c = "d" -> "D" [] c = "e" -> "E"
      [] c = "g" -> "G" [] c = "x" -> "X" [] OTHER -> c

Upper(s) == [i \in 1..Len(s) |-> UpperChar(s[i])]

RECURSIVE LStrip(_)
LStrip(s) == IF s # <<>> /\ IsSpace(s[1]) THEN LStrip(Tail(s)) ELSE s

RECURSIVE RStrip(_)
RStrip(s) ==
    IF s # <<>> /\ IsSpace(s[Len(s)]) THEN RStrip(SubSeq(s, 1, Len(s) - 1)) ELSE s

\* str.strip()
Strip(s) == RStrip(LStrip(s))

StartsWith(s, pat) == Len(s) >= Len(pat) /\ SubSeq(s, 1, Len(pat)) = pat

\* str.replace(pat, ""): the non-overlapping occurrences, left to right
RECURSIVE Remove(_, _)
Remove(s, pat) ==
    IF s = <<>> THEN <<>>
    ELSE IF StartsWith(s, pat) THEN Remove(SubSeq(s, Len(pat) + 1, Len(s)), pat)
    ELSE <<s[1]>> \o Remove(Tail(s), pat)

\* the index after the run of digits of s that starts at i
RECURSIVE SkipDigits(_, _)
SkipDigits(s, i) ==
    IF i <= Len(s) /\ s[i] \in Digits THEN SkipDigits(s, i + 1) ELSE i

\* the index after the run of spaces of s that starts at i
RECURSIVE SkipSpaces(_, _)
SkipSpaces(s, i) ==
    IF i <= Len(s) /\ IsSpace(s[i]) THEN SkipSpaces(s, i + 1) ELSE i

\* the natural number written by the digits s[i..j-1] (0 for none)
RECURSIVE DigitsVal(_, _, _)
DigitsVal(s, i, j) ==
    IF j <= i THEN 0 ELSE 10 * DigitsVal(s, i, j - 1) + DigitVal(s[j - 1])

RECURSIVE Pow10(_)
Pow10(k) == IF k = 0 THEN 1 ELSE 10 * Pow10(k - 1)

\* the number written as digits s[i..j-1], "." and digits s[k..l-1]
Decimal(s, i, j, k, l) ==
    RAdd(Num(DigitsVal(s, i, j)), Frac(DigitsVal(s, k, l), Pow10(l - k)))

\* the index after an optional sign at i
SkipSign(s, i) == IF i <= Len(s) /\ s[i] \in {"+", "-"} THEN i + 1 ELSE i

\* the index after an optional "." at i
SkipDot(s, i) == IF i <= Len(s) /\ s[i] = "." THEN i + 1 ELSE i

\* the index after an optional "E" and its optional sign at i
SkipExp(s, i) == IF i <= Len(s) /\ s[i] = "E" THEN SkipSign(s, i + 1) ELSE i

\* the index after an optional (?:\.\d+) at i
SkipFraction(s, i) ==
    IF i + 1 <= Len(s) /\ s[i] = "." /\ s[i + 1] \in Digits
    THEN SkipDigits(s, i + 1) ELSE i

\* float(s) of a stripped, upper-case s: the value, or NULL where float raises
\* ValueError.  The grammar: a sign, digits with an optional "." part (a digit
\* on one side at least), an optional exponent E[sign]digits.
FloatOf(s) ==
    LET i0 == SkipSign(s, 1)
        i1 == SkipDigits(s, i0)
        f0 == SkipDot(s, i1)
        f1 == SkipDigits(s, f0)
        e0 == SkipExp(s, f1)
        e1 == SkipDigits(s, e0)
        ex == Pow10(DigitsVal(s, e0, e1))
    IN  IF (i1 = i0 /\ f1 = f0) \/ (e0 # f1 /\ e1 = e0) \/ e1 # Len(s) + 1
        THEN NULL
        ELSE RMul(Num(IF s[1] = "-" THEN -1 ELSE 1),
                  IF e0 = f1 + 2 /\ s[f1 + 1] = "-"
                  THEN RDiv(Decimal(s, i0, i1, f0, f1), Num(ex))
                  ELSE RMul(Decimal(s, i0, i1, f0, f1), Num(ex)))

\* float(str): surrounding whitespace is ignored
ParseFloat(str) == FloatOf(Strip(str))

\* re.match(r"^\s*(\d+(?:\.\d+)?)\s*([PS])\s*$", s): <<side, deg>> or NULL
MatchNumSide(s) ==
    LET i0 == SkipSpaces(s, 1)
        i1 == SkipDigits(s, i0)
        f1 == SkipFraction(s, i1)
        p  == SkipSpaces(s, f1)
    IN  IF /\ i1 > i0
           /\ p <= Len(s) /\ s[p] \in {"P", "S"}
           /\ SkipSpaces(s, p + 1) = Len(s) + 1
        THEN <<s[p], Decimal(s, i0, i1, SkipDot(s, i1), f1)>>
        ELSE NULL

\* re.match(r"^\s*([PS])\s*(\d+(?:\.\d+)?)\s*$", s): <<side, deg>> or NULL
MatchSideNum(s) ==
    LET p  == SkipSpaces(s, 1)
        i0 == SkipSpaces(s, p + 1)
        i1 == SkipDigits(s, i0)
        f1 == SkipFraction(s, i1)
    IN  IF /\ p <= Len(s) /\ s[p] \in {"P", "S"}
           /\ i1 > i0
           /\ SkipSpaces(s, f1) = Len(s) + 1
        THEN <<s[p], Decimal(s, i0, i1, SkipDot(s, i1), f1)>>
        ELSE NULL

\* ------------------------------------------------------------------
\* Heel parsing and the continuous heel correction

DISCRETE == <<"DISCRETE">>

SideP == <<"P">>

SideS == <<"S">>

\* heel_raw.strip().upper().replace("DEG", "").replace("°", "")
HeelText(heel_raw) ==
    Remove(Remove(Upper(Strip(heel_raw)), <<"D", "E", "G">>), <<"°">>)

\* Faulty variant: a match of 0 degrees is not turned into (None, None)
HeelOfMatch_keeps_zero(m) == <<<<m[1]>>, m[2]>>

\* the result for a regex match m = <<side, deg>>
HeelOfMatch(m) ==
    IF m[2] = Num(0) THEN <<None, NULL>> ELSE <<<<m[1]>>, m[2]>>

\* Faulty variant: a positive number is taken as Starboard, a negative as Port
cli_parse_heel_number_sides_swapped(deg_only, m1, m2) ==
    IF deg_only # NULL
    THEN (IF deg_only = Num(0) THEN <<None, NULL>>
          ELSE <<IF RLt(Num(0), deg_only) THEN SideS ELSE SideP, RAbs(deg_only)>>)
    ELSE IF m1 # NULL THEN HeelOfMatch(m1)
    ELSE IF m2 # NULL THEN HeelOfMatch(m2)
    ELSE <<DISCRETE, NULL>>

\* _parse_heel after the known codes: float(s), then the two patterns in turn
cli_parse_heel_number(deg_only, m1, m2) ==
    IF deg_only # NULL
    THEN (IF deg_only = Num(0) THEN <<None, NULL>>
          ELSE <<IF RLt(Num(0), deg_only) THEN SideP ELSE SideS, RAbs(deg_only)>>)
    ELSE IF m1 # NULL THEN HeelOfMatch(m1)
    ELSE IF m2 # NULL THEN HeelOfMatch(m2)
    ELSE <<DISCRETE, NULL>>

\* Faulty variant: the four codes are not tried before the number forms
cli_parse_heel_text_codes_last(s) ==
    cli_parse_heel_number(ParseFloat(s), MatchNumSide(s), MatchSideNum(s))

cli_parse_heel_text(s) ==
    IF s \in {P1, P2, S1, S2} THEN <<DISCRETE, NULL>>
    ELSE cli_parse_heel_number(ParseFloat(s), MatchNumSide(s), MatchSideNum(s))

\* _parse_heel: <<side, deg>>, side one of None, DISCRETE, SideP, SideS
cli_parse_heel(heel_raw) ==
    IF ~Truthy(heel_raw) THEN <<None, NULL>>
    ELSE cli_parse_heel_text(HeelText(heel_raw))

\* Faulty variant: one segment, deg * c1, over the whole range
cli_heel_between_one_segment(d, c1, c2) == RMul(d, c1)

\* deg clamped to 2: deg * c1 up to 1 degree, c1 + (deg - 1) * (c2 - c1) above
cli_heel_between(d, c1, c2) ==
    IF RLe(d, Num(1)) THEN RMul(d, c1)
    ELSE RAdd(c1, RMul(RSub(d, Num(1)), RSub(c2, c1)))

\* Faulty variant: deg is not clamped to 2
cli_continuous_heel_corr_unclamped(db, name, trim, side, deg, sounding, ullage) ==
    IF RLe(deg, Num(0)) THEN Num(0)
    ELSE cli_heel_between(deg,
            cli_heel_corr_at(db, name, trim,
                IF side = SideP THEN side \o <<"1">> ELSE S1, sounding, ullage),
            cli_heel_corr_at(db, name, trim,
                IF side = SideP THEN side \o <<"2">> ELSE S2, sounding, ullage))

cli_continuous_heel_corr(db, name, trim, side, deg, sounding, ullage) ==
    IF RLe(deg, Num(0)) THEN Num(0)
    ELSE cli_heel_between(
            IF RLe(Num(2), deg) THEN Num(2) ELSE deg,
            cli_heel_corr_at(db, name, trim,
                IF side = SideP THEN side \o <<"1">> ELSE S1, sounding, ullage),
            cli_heel_corr_at(db, name, trim,
                IF side = SideP THEN side \o <<"2">> ELSE S2, sounding, ullage))

\* m = re.match(number-side) or re.match(side-number)
ops_parse_heel_number(deg_only, m) ==
    IF deg_only # NULL
    THEN (IF deg_only = Num(0) THEN <<None, NULL>>
          ELSE <<IF RLt(Num(0), deg_only) THEN SideP ELSE SideS, RAbs(deg_only)>>)
    ELSE IF m # NULL THEN HeelOfMatch(m)
    ELSE <<DISCRETE, NULL>>

ops_first_match(m1, m2) == IF m1 # NULL THEN m1 ELSE m2

ops_parse_heel_text(s) ==
    IF s \in {P1, P2, S1, S2} THEN <<DISCRETE, NULL>>
    ELSE ops_parse_heel_number(ParseFloat(s),
                               ops_first_match(MatchNumSide(s), MatchSideNum(s)))

ops_parse_heel(heel_raw) ==
    IF ~Truthy(heel_raw) THEN <<None, NULL>>
    ELSE ops_parse_heel_text(HeelText(heel_raw))

ops_heel_between(d, c1, c2) ==
    IF RLe(d, Num(1)) THEN RMul(d, c1)
    ELSE RAdd(c1, RMul(RSub(d, Num(1)), RSub(c2, c1)))

ops_continuous_heel_corr(db, name, trim, side, deg, sounding, ullage) ==
    IF RLe(deg, Num(0)) THEN Num(0)
    ELSE ops_heel_between(
            IF RLe(Num(2), deg) THEN Num(2) ELSE deg,
            ops_heel_corr_at(db, name, trim,
                IF side = SideP THEN side \o <<"1">> ELSE S1, sounding, ullage),
            ops_heel_corr_at(db, name, trim,
                IF side = SideP THEN side \o <<"2">> ELSE S2, sounding, ullage))

\* the heel branch of _compute_volumes, sd = _parse_heel(heel)
ops_heel_correction(db, name, trim, sounding, ullage, heel, sd) ==
    IF sd[1] = None THEN Num(0)
    ELSE IF sd[1] = DISCRETE
         THEN ops_heel_corr_at(db, name, trim, Upper(Strip(heel)), sounding, ullage)
    ELSE ops_continuous_heel_corr(db, name, trim, sd[1], sd[2], sounding, ullage)

\* Faulty variant: the observed volume leaves the heel correction out
ops_volumes_without_corr(base, corr) ==
    IF base = NULL THEN NULL ELSE <<base, corr, base>>

\* Faulty variant: an unresolvable base is taken as 0 instead of raising
ops_volumes_no_raise(base, corr) ==
    IF base = NULL THEN <<Num(0), corr, corr>> ELSE <<base, corr, RAdd(base, corr)>>

\* raise ValueError if base is None, else (base, corr, base + corr)
ops_volumes(base, corr) ==
    IF base = NULL THEN NULL ELSE <<base, corr, RAdd(base, corr)>>

\* _compute_volumes: <<base, corr, base + corr>>, or NULL where it raises
\* ValueError("No base volume found ...")
ops_compute_volumes(db, name, trim, sounding, ullage, heel) ==
    ops_volumes(
        ops_base_volume(db, name, trim, sounding, ullage),
        ops_heel_correction(db, name, trim, sounding, ullage, heel,
                            ops_parse_heel(heel)))

\* ------------------------------------------------------------------
\* vcf54b.py

\* rational arithmetic that divides out common factors before it multiplies:
\* the coefficients of Table 54B carry up to eight digits
QMul(a, b) ==
    Frac((a[1] \div GCD(Abs(a[1]), b[2])) * (b[1] \div GCD(Abs(b[1]), a[2])),
         (a[2] \div GCD(Abs(b[1]), a[2])) * (b[2] \div GCD(Abs(a[1]), b[2])))

QAdd(a, b) ==
    Frac(a[1] * (b[2] \div GCD(a[2], b[2])) + b[1] * (a[2] \div GCD(a[2], b[2])),
         (a[2] \div GCD(a[2], b[2])) * b[2])

QLe(a, b) ==
    a[1] * (b[2] \div GCD(a[2], b[2])) <= b[1] * (a[2] \div GCD(a[2], b[2]))

QLt(a, b) ==
    a[1] * (b[2] \div GCD(a[2], b[2])) < b[1] * (a[2] \div GCD(a[2], b[2]))

\* vcf_54b raises ZeroDivisionError: rho ** 2 is 0.0 in the division
vcf_54b_raises(den15) == den15 = Num(0)

\* Faulty variant: the first region ends below 770
vcf_region_770_open(rho) ==
    IF QLt(rho, Num(770)) THEN 1
    ELSE IF QLe(Num(770), rho) /\ QLt(rho, Num(778)) THEN 2
    ELSE IF QLe(Num(778), rho) /\ QLt(rho, Num(839)) THEN 3
    ELSE 4

\* the branch of the if / elif chain that picks alpha, 1 to 4
vcf_region(rho) ==
    IF QLe(rho, Num(770)) THEN 1
    ELSE IF QLt(Num(770), rho) /\ QLt(rho, Num(778)) THEN 2
    ELSE IF QLe(Num(778), rho) /\ QLt(rho, Num(839)) THEN 3
    ELSE 4

\* alpha * rho ** 2 as the branch computes it: K0 + K1 * rho, or
\* A * rho ** 2 + B in the transition region
vcf_alpha_num_in(region, rho) ==
    CASE region = 1 -> QAdd(Frac(34642278, 100000), QMul(Frac(43884, 100000), rho))
      [] region = 2 -> QAdd(QMul(Frac(-33612, 10000000), QMul(rho, rho)),
                            Frac(268032, 100))
      [] region = 3 -> Frac(5945418, 10000)
      [] region = 4 -> QAdd(Frac(1869696, 10000), QMul(Frac(48618, 100000), rho))

vcf_alpha_num(rho) == vcf_alpha_num_in(vcf_region(rho), rho)

\* the exponent -alpha * dT * (1 + 0.8 * alpha * dT) is 0: alpha * dT is 0,
\* or alpha * dT is -1.25; an = alpha * rho ** 2
vcf_exponent_is_zero(an, rho, dT) ==
    \/ QMul(an, dT) = Num(0)
    \/ QMul(QMul(an, dT), Num(4)) = QMul(Num(-5), QMul(rho, rho))

\* math.exp of a non-zero argument is irrational: the model abstracts it to
\* a value below and a value above 1
ExpValues == {Frac(9, 10), Frac(11, 10)}

\* Faulty variant: the reference temperature is taken as 20 C
vcf_54b_ref_20(den15, degc) ==
    IF vcf_exponent_is_zero(vcf_alpha_num(den15), den15, RSub(degc, Num(20)))
    THEN {Num(1)} ELSE ExpValues

\* vcf_54b(den15, degc): the values the result may take; exp(0.0) is exactly 1
vcf_54b(den15, degc) ==
    IF vcf_exponent_is_zero(vcf_alpha_num(den15), den15, RSub(degc, Num(15)))
    THEN {Num(1)} ELSE ExpValues

\* ------------------------------------------------------------------
\* What a command has shown (the values handed to print / setText, before
\* their formatting) or the exception it raised

NoArgs ==
    [name |-> "", trim |-> NULL, sounding |-> NULL, ullage |-> NULL,
     heel |-> None, temp |-> NULL, dens |-> NULL]

Args(name, trim, sounding, ullage, heel, temp, dens) ==
    [name |-> name, trim |-> trim, sounding |-> sounding, ullage |-> ullage,
     heel |-> heel, temp |-> temp, dens |-> dens]

NoOut ==
    [cmd |-> "none", status |-> "none", args |-> NoArgs,
     base |-> NULL, corr |-> NULL, total |-> NULL,
     vcf |-> NULL, v15 |-> NULL, mass |-> NULL]

Shown(cmd, status, args, res) ==
    [cmd |-> cmd, status |-> status, args |-> args,
     base |-> res[1], corr |-> res[2], total |-> res[3],
     vcf |-> res[4], v15 |-> res[5], mass |-> res[6]]

Nothing == <<NULL, NULL, NULL, NULL, NULL, NULL>>

\* ------------------------------------------------------------------
\* Inputs

MaxTrim == 3

\* requested trims: the halves between -MaxTrim and MaxTrim, and a trim
\* half the tolerance of the exact-trim query above 0
ReqTrims ==
    {Frac(k, 2) : k \in (-2 * MaxTrim)..(2 * MaxTrim)} \cup {Frac(1, 2 * TrimTolDen)}

Levels == {Num(-10), Num(0), Num(25), Num(50), Num(75), Num(100), Num(150)}

\* <<sounding, ullage>>: argparse's required mutually exclusive group
LevelArgs == {<<x, NULL>> : x \in Levels} \cup {<<NULL, x>> : x \in Levels}

\* --heel: absent (None), empty, blank, codes in either case, signed numbers,
\* number-side and side-number tokens, a decimal comma, unknown codes
HeelInputs ==
    {None, P1, <<"1", ".", "5", "P">>, <<"-", "0", ".", "5">>, <<"s", "-", "2">>,
     <<"X", "X">>,
     <<>>, <<" ", " ">>, <<"0">>, <<"0", "P">>, <<"1">>, <<"2", "S">>,
     <<"2", ".", "5">>, <<"P", " ", "0", ".", "5">>, <<"1", ",", "5", "P">>,
     <<"p", "1">>, <<"x", "1">>}

\* ------------------------------------------------------------------
\* cli.py: the volume command

\* Faulty variant: without a heel the P1 rows are looked up
cli_heel_correction_none_as_p1(db, name, trim, sounding, ullage, heel_raw, sd) ==
    IF sd[1] = None THEN cli_heel_corr_at(db, name, trim, P1, sounding, ullage)
    ELSE IF sd[1] = DISCRETE
         THEN cli_heel_corr_at(db, name, trim, Upper(Strip(heel_raw)), sounding, ullage)
    ELSE cli_continuous_heel_corr(db, name, trim, sd[1], sd[2], sounding, ullage)

\* the heel codes cmd_volume hands to _heel_corr_at, directly or through
\* _continuous_heel_corr, sd = _parse_heel(heel_raw)
cli_heel_queries(heel_raw, sd) ==
    IF sd[1] = None THEN {}
    ELSE IF sd[1] = DISCRETE THEN {Upper(Strip(heel_raw))}
    ELSE IF RLe(sd[2], Num(0)) THEN {}
    ELSE IF RLe(sd[2], Num(1)) THEN {IF sd[1] = SideP THEN P1 ELSE S1}
    ELSE {IF sd[1] = SideP THEN P1 ELSE S1, IF sd[1] = SideP THEN P2 ELSE S2}

\* the heel branch of cmd_volume, sd = _parse_heel(heel_raw)
cli_heel_correction(db, name, trim, sounding, ullage, heel_raw, sd) ==
    IF sd[1] = None THEN Num(0)
    ELSE IF sd[1] = DISCRETE
         THEN cli_heel_corr_at(db, name, trim, Upper(Strip(heel_raw)), sounding, ullage)
    ELSE cli_continuous_heel_corr(db, name, trim, sd[1], sd[2], sounding, ullage)

\* what cmd_volume prints: the "No base volume found" line, or base, corr and
\* total = base + corr
cmd_volume_print(args, base, corr) ==
    IF base = NULL
    THEN Shown("volume", "NoBaseVolume", args, Nothing)
    ELSE Shown("volume", "ok", args,
               <<base, corr, RAdd(base, corr), NULL, NULL, NULL>>)

cmd_volume(db, name, trim, sounding, ullage, heel_raw) ==
    cmd_volume_print(
        Args(name, trim, sounding, ullage, heel_raw, NULL, NULL),
        cli_base_volume(db, name, trim, sounding, ullage),
        cli_heel_correction(db, name, trim, sounding, ullage, heel_raw,
                            cli_parse_heel(heel_raw)))

CmdVolume ==
    /\ pc = "ready"
    /\ \E name \in Tanks, trim \in ReqTrims, lv \in LevelArgs, heel \in HeelInputs :
          out' = cmd_volume(readings, name, trim, lv[1], lv[2], heel)
    /\ pc' = "done"
    /\ UNCHANGED <<readings, ops_tanks, ops_readings>>
    /\ UNCHANGED aux

\* the process ends; the next command starts from the prompt
Exit ==
    /\ pc = "done"
    /\ pc' = "ready"
    /\ out' = NoOut
    /\ UNCHANGED <<readings, ops_tanks, ops_readings>>
    /\ UNCHANGED aux

\* ------------------------------------------------------------------
\* ui_fuel_sheet.py: FuelTable.calc_one

FuelLevels == {Num(0), Num(50), Num(100), Num(150)}

FuelTrims == {Num(0), Frac(1, 2), Num(2)}

Temps == {Num(15), Num(25)}

\* the density field: a number the validator lets through, or 0.0 for a text
\* float() rejects
FuelDens == {Num(0), Num(850)}

FuelHeels == {None, P1, <<"0">>}

\* v_obs = max(0.0, v_obs); v15 = max(0.0, v_obs * vcf);
\* mass_t = max(0.0, (v15 * dens15) / 1000.0): <<v15, mass_t>>
calc_one_clamped(v_obs, vcf, dens15) ==
    <<RMax(Num(0), RMul(RMax(Num(0), v_obs), vcf)),
      RMax(Num(0),
           RDiv(RMul(RMax(Num(0), RMul(RMax(Num(0), v_obs), vcf)), dens15),
                Num(1000)))>>

\* set_row_outputs(row, vcf, v15, mass_t)
calc_one_outputs(args, vcf, vm) ==
    Shown("calc_one", "ok", args, <<NULL, NULL, NULL, vcf, vm[1], vm[2]>>)

\* calc_one after the ullage shortcut, cv = _compute_volumes(...)
calc_one_row(args, cv, dens15, vcf) ==
    IF cv = NULL THEN Shown("calc_one", "ValueError", args, Nothing)
    ELSE IF vcf_54b_raises(dens15)
         THEN Shown("calc_one", "ZeroDivisionError", args, Nothing)
    ELSE calc_one_outputs(args, vcf, calc_one_clamped(cv[3], vcf, dens15))

calc_one(db, code, is_sounding, level_cm, temp_c, dens15, trim, heel, vcf) ==
    IF level_cm = Num(0) /\ ~is_sounding
    THEN Shown("calc_one", "ok",
               Args(code, trim, NULL, level_cm, heel, temp_c, dens15),
               <<NULL, NULL, NULL, Num(1), Num(0), Num(0)>>)
    ELSE calc_one_row(
             Args(code, trim,
                  IF is_sounding THEN level_cm ELSE NULL,
                  IF ~is_sounding THEN level_cm ELSE NULL,
                  heel, temp_c, dens15),
             ops_compute_volumes(db, code, trim,
                  IF is_sounding THEN level_cm ELSE NULL,
                  IF ~is_sounding THEN level_cm ELSE NULL,
                  heel),
             dens15, vcf)

FuelCalcOne ==
    /\ pc = "ready"
    /\ \E code \in Tanks, is_sounding \in BOOLEAN, level_cm \in FuelLevels,
          temp_c \in Temps, dens15 \in FuelDens, trim \in FuelTrims,
          heel \in FuelHeels :
          \E vcf \in vcf_54b(dens15, temp_c) :
              out' = calc_one(readings, code, is_sounding, level_cm, temp_c,
                              dens15, trim, heel, vcf)
    /\ pc' = "done"
    /\ UNCHANGED <<readings, ops_tanks, ops_readings>>
    /\ UNCHANGED aux

\* ------------------------------------------------------------------
\* ui_sludge.py: compute_obs_vol_m3, and ui_other_tanks.py: calc_one

SheetTanks == {"T1", "T5", "T6", "T7"}

SheetTrims == {Num(0), Frac(1, 2)}

SheetLevels == {Num(0), Num(25), Num(50), Num(100)}

\* _heel_token: "0" for an empty field, else the number and the side
SludgeHeelTokens == {<<"0">>, <<"1", "P">>, <<"1", ".", "5", "P">>, <<"2", "S">>}

\* the rows of a tank that carry a sounding and an ullage
SoundingAndUllage(db, tank_name) ==
    {r \in db : /\ r.row.name = tank_name
                /\ r.row.sounding_cm # NULL /\ r.row.ullage_cm # NULL}

\* _guess_ullage_from_db: H = max(sounding + ullage), ul = H - cm, clamped at
\* 0; None without rows that carry both
guess_ullage_from_db(db, tank_name, cm) ==
    IF SoundingAndUllage(db, tank_name) = {} THEN NULL
    ELSE RMax(Num(0),
              RSub(CHOOSE h \in {RAdd(r.row.sounding_cm, r.row.ullage_cm) :
                                    r \in SoundingAndUllage(db, tank_name)} :
                       \A r \in SoundingAndUllage(db, tank_name) :
                           RLe(RAdd(r.row.sounding_cm, r.row.ullage_cm), h),
                   cm))

\* the ullage keyword: 0.0 if ul is None else float(ul)
sludge_ullage(db, cap_name, cm) ==
    IF guess_ullage_from_db(db, cap_name, cm) = NULL THEN Num(0)
    ELSE guess_ullage_from_db(db, cap_name, cm)

\* "Normalize to float": of a tuple, the first element float() accepts
sludge_normalize(result) == result[1]

\* compute_obs_vol_m3: fn(name=cap_name, trim=trim, sounding=cm,
\* ullage=..., heel=heel_token), NULL where fn raises
compute_obs_vol_m3(db, cap_name, trim, heel_token, cm) ==
    \* result = fn(**kwargs)
    IF ops_compute_volumes(db, cap_name, trim, cm,
                           sludge_ullage(db, cap_name, cm), heel_token) = NULL
    THEN NULL
    ELSE sludge_normalize(
             ops_compute_volumes(db, cap_name, trim, cm,
                                 sludge_ullage(db, cap_name, cm), heel_token))

\* one volume cell of the sludge sheet
SludgeCompute ==
    /\ pc = "ready"
    /\ \E cap_name \in SheetTanks, trim \in SheetTrims,
          heel \in SludgeHeelTokens, cm \in SheetLevels :
       \E vol \in {compute_obs_vol_m3(readings, cap_name, trim, heel, cm)} :
          out' = Shown("sludge", IF vol = NULL THEN "ValueError" ELSE "ok",
                       Args(cap_name, trim, cm,
                            sludge_ullage(readings, cap_name, cm), heel, NULL, NULL),
                       <<NULL, NULL, vol, NULL, NULL, NULL>>)
    /\ pc' = "done"
    /\ UNCHANGED <<readings, ops_tanks, ops_readings>>
    /\ UNCHANGED aux

\* SimpleTankTable.calc_one: the vobs cell shows max(0.0, v_obs), or "-"
simple_calc_one(db, code, is_sounding, level_cm, trim, heel) ==
    \* _, _, v_obs = _compute_volumes(...)
    IF ops_compute_volumes(db, code, trim,
                           IF is_sounding THEN level_cm ELSE NULL,
                           IF ~is_sounding THEN level_cm ELSE NULL, heel) = NULL
    THEN NULL
    ELSE RMax(Num(0),
              ops_compute_volumes(db, code, trim,
                                  IF is_sounding THEN level_cm ELSE NULL,
                                  IF ~is_sounding THEN level_cm ELSE NULL, heel)[3])

OtherCalcOne ==
    /\ pc = "ready"
    /\ \E code \in SheetTanks, is_sounding \in BOOLEAN, level_cm \in SheetLevels,
          trim \in SheetTrims, heel \in FuelHeels :
       \E v_obs \in {simple_calc_one(readings, code, is_sounding, level_cm, trim, heel)} :
          out' = Shown("other_calc_one", IF v_obs = NULL THEN "ValueError" ELSE "ok",
                       Args(code, trim,
                            IF is_sounding THEN level_cm ELSE NULL,
                            IF ~is_sounding THEN level_cm ELSE NULL,
                            heel, NULL, NULL),
                       <<NULL, NULL, v_obs, NULL, NULL, NULL>>)
    /\ pc' = "done"
    /\ UNCHANGED <<readings, ops_tanks, ops_readings>>
    /\ UNCHANGED aux

\* ------------------------------------------------------------------
\* ops_db.py and ops_cli.py: the reading-add command

\* the rows the readings table of ops.db may come to hold
MaxOpsReadings == 1

OpsTanks == {"T1", "T4", "T6"}

OpsTrims == {Num(0)}

OpsLevelArgs == {<<Num(0), NULL>>, <<Num(50), NULL>>, <<NULL, Num(50)>>}

OpsHeels == {None, P1}

\* <<density15, density15_unit>>
OpsDens == {<<Num(850), "kg/m3">>, <<Frac(17, 20), "kg/L">>, <<Num(0), "kg/m3">>}

HFO == <<"H", "F", "O">>

OpsProducts == {None, HFO}

Coalesce(a, b, null) == IF a # null THEN a ELSE b

\* INSERT INTO tanks ... ON CONFLICT(name) DO UPDATE SET x=COALESCE(excluded.x, tanks.x)
ensure_tank(tanks, name, product, density15_kg_m3, mode, notes) ==
    IF \E t \in tanks : t.name = name
    THEN LET old == CHOOSE t \in tanks : t.name = name
         IN  (tanks \ {old}) \cup
             {[name |-> name,
               product |-> Coalesce(product, old.product, None),
               density15_kg_m3 |-> Coalesce(density15_kg_m3, old.density15_kg_m3, NULL),
               mode |-> Coalesce(mode, old.mode, "NULL"),
               notes |-> Coalesce(notes, old.notes, None)]}
    ELSE tanks \cup
             {[name |-> name, product |-> product,
               density15_kg_m3 |-> density15_kg_m3, mode |-> mode, notes |-> notes]}

\* INSERT INTO readings (...) VALUES (...): the row appended
add_reading(rows, tank_name, mode, sounding_cm, ullage_cm, trim, heel_label, temperature_c, density15_kg_m3, base_vol_m3, heel_corr_m3, volume_obs_m3, vcf, volume_15c_m3, mass_kg) ==
    Append(rows,
        [tank_name |-> tank_name, session_id |-> NULL, mode |-> mode,
         sounding_cm |-> sounding_cm, ullage_cm |-> ullage_cm, trim |-> trim,
         heel_label |-> heel_label, temperature_c |-> temperature_c,
         density15_kg_m3 |-> density15_kg_m3, base_vol_m3 |-> base_vol_m3,
         heel_corr_m3 |-> heel_corr_m3, volume_obs_m3 |-> volume_obs_m3,
         vcf |-> vcf, volume_15c_m3 |-> volume_15c_m3, mass_kg |-> mass_kg,
         note |-> None])

\* d15 = args.density15, times 1000.0 if the unit is kg/L
ops_density15(dn) == IF dn[2] = "kg/L" THEN RMul(dn[1], Num(1000)) ELSE dn[1]

ops_mode(sounding) == IF sounding # NULL THEN "sounding" ELSE "ullage"

CmdReadingsAdd ==
    /\ pc = "ready"
    /\ \E tank \in OpsTanks, trim \in OpsTrims, lv \in OpsLevelArgs,
          heel \in OpsHeels, temperature \in Temps, dn \in OpsDens,
          product \in OpsProducts :
          \E cv \in {ops_compute_volumes(readings, tank, trim, lv[1], lv[2], heel)},
             d15 \in {ops_density15(dn)} :
              IF cv = NULL
              THEN /\ out' = Shown("reading-add", "ValueError",
                                   Args(tank, trim, lv[1], lv[2], heel, temperature, d15),
                                   Nothing)
                   /\ UNCHANGED <<ops_tanks, ops_readings>>
              ELSE IF vcf_54b_raises(d15)
              THEN /\ out' = Shown("reading-add", "ZeroDivisionError",
                                   Args(tank, trim, lv[1], lv[2], heel, temperature, d15),
                                   Nothing)
                   /\ UNCHANGED <<ops_tanks, ops_readings>>
              ELSE /\ Len(ops_readings) < MaxOpsReadings
                   /\ \E vcf \in vcf_54b(d15, temperature) :
                      \E v15 \in {RMul(cv[3], vcf)} :
                      \E mass_kg \in {RMul(v15, d15)} :
                          /\ ops_tanks' = ensure_tank(ops_tanks, tank, product, d15,
                                                      ops_mode(lv[1]), None)
                          /\ ops_readings' =
                                 add_reading(ops_readings, tank, ops_mode(lv[1]),
                                             lv[1], lv[2], trim,
                                             IF Truthy(heel) THEN heel ELSE <<"0">>,
                                             temperature, d15, cv[1], cv[2], cv[3],
                                             vcf, v15, mass_kg)
                          /\ out' = Shown("reading-add", "ok",
                                          Args(tank, trim, lv[1], lv[2], heel,
                                               temperature, d15),
                                          <<cv[1], cv[2], cv[3], vcf, v15, mass_kg>>)
    /\ pc' = "done"
    /\ UNCHANGED readings
    /\ UNCHANGED aux

\* ------------------------------------------------------------------
\* vcf54b.py: a call of vcf_54b

\* densities in, at the ends of and around the four regions, and 0
VcfDens ==
    {Num(0), Num(600), Num(700), Num(770), Num(772), Num(774), Num(776),
     Num(778), Num(780), Num(800), Num(838), Num(839), Num(850), Num(1000)}

VcfTemps == {Num(5), Num(15), Num(25), Num(40), Num(55)}

Vcf54b ==
    /\ pc = "ready"
    /\ \E den15 \in VcfDens, degc \in VcfTemps :
          IF vcf_54b_raises(den15)
          THEN out' = Shown("vcf_54b", "ZeroDivisionError",
                            Args("", NULL, NULL, NULL, None, degc, den15), Nothing)
          ELSE \E vcf \in vcf_54b(den15, degc) :
                   out' = Shown("vcf_54b", "ok",
                                Args("", NULL, NULL, NULL, None, degc, den15),
                                <<NULL, NULL, NULL, vcf, NULL, NULL>>)
    /\ pc' = "done"
    /\ UNCHANGED <<readings, ops_tanks, ops_readings>>
    /\ UNCHANGED aux

\* ------------------------------------------------------------------
\* ops_cli.py: _compute_volumes, statement by statement, for callers that run
\* side by side (processes of the CLI, the sheets' windows)

MaxCalls == 2

CallIds == 1..MaxCalls

CallTanks == {"T1", "T4", "T6"}

CallLevels == {Num(50)}

CallHeels == {None, P1, <<"1", ".", "5", "P">>}

\* a caller that is not inside _compute_volumes
NoCall ==
    [at |-> "idle", args |-> NoArgs, conn |-> FALSE,
     base |-> NULL, corr |-> NULL, res |-> NULL]

\* conn = sqlite3.connect(DB_CAP_PATH)
CallConnect(i) ==
    /\ calls[i].at = "idle"
    /\ \E name \in CallTanks, x \in CallLevels, heel \in CallHeels :
          calls' = [calls EXCEPT ![i] =
                       [NoCall EXCEPT !.at = "connected", !.conn = TRUE,
                            !.args = Args(name, Num(0), x, NULL, heel, NULL, NULL)]]
    /\ UNCHANGED not_calls

\* base = _base_volume(...); if base is None: raise ValueError
CallBase(i) ==
    /\ calls[i].at = "connected"
    /\ \E base \in {ops_base_volume(readings, calls[i].args.name, calls[i].args.trim,
                                     calls[i].args.sounding, calls[i].args.ullage)} :
          calls' = [calls EXCEPT ![i].base = base,
                                 ![i].at = IF base = NULL THEN "raising" ELSE "based"]
    /\ UNCHANGED not_calls

\* side, deg = _parse_heel(heel); corr = ...
CallHeel(i) ==
    /\ calls[i].at = "based"
    /\ calls' = [calls EXCEPT
                    ![i].corr = ops_heel_correction(readings, calls[i].args.name,
                                    calls[i].args.trim, calls[i].args.sounding,
                                    calls[i].args.ullage, calls[i].args.heel,
                                    ops_parse_heel(calls[i].args.heel)),
                    ![i].at = "corrected"]
    /\ UNCHANGED not_calls

\* Faulty variant: the connection is closed on the return path only
call_finally_return_only(c) ==
    IF c.at = "raising" THEN [c EXCEPT !.at = "raised"]
    ELSE [c EXCEPT !.at = "returned", !.conn = FALSE,
                   !.res = <<c.base, c.corr, RAdd(c.base, c.corr)>>]

\* finally: conn.close(), then the return of (base, corr, base + corr) or
\* the ValueError on its way out
call_finally(c) ==
    IF c.at = "raising" THEN [c EXCEPT !.at = "raised", !.conn = FALSE]
    ELSE [c EXCEPT !.at = "returned", !.conn = FALSE,
                   !.res = <<c.base, c.corr, RAdd(c.base, c.corr)>>]

CallFinally(i) ==
    /\ calls[i].at \in {"raising", "corrected"}
    /\ calls' = [calls EXCEPT ![i] = call_finally(calls[i])]
    /\ UNCHANGED not_calls

\* the caller goes on and may call again
CallDone(i) ==
    /\ calls[i].at \in {"returned", "raised"}
    /\ calls' = [calls EXCEPT ![i] = NoCall]
    /\ UNCHANGED not_calls

\* ------------------------------------------------------------------
\* main_launcher.py: the cards of the launcher and the processes they start

Cards == {"ui_fuel_sheet.py", "ui_sludge.py"}

\* the processes the launcher may come to start
MaxChildren == 3

Pids == 1..MaxChildren

\* self.proc = None
NoProc == 0

\* AppCard.__init__: no process, status idle, Open enabled, Stop disabled
NewCard == [proc |-> NoProc, status |-> "idle", run_btn |-> TRUE, stop_btn |-> FALSE]

\* a process not started yet
NoChild == [card |-> "", st |-> "none"]

\* the number the next process gets, MaxChildren + 1 when none is left
NextPid(ch) ==
    IF \E p \in Pids : ch[p].st = "none"
    THEN CHOOSE p \in Pids : ch[p].st = "none" /\ \A q \in Pids : q < p => ch[q].st # "none"
    ELSE MaxChildren + 1

\* _on_finished
on_finished(card) ==
    [card EXCEPT !.proc = NoProc, !.status = "exited", !.run_btn = TRUE, !.stop_btn = FALSE]

\* launch: <<card, children>> after it; started says whether waitForStarted
\* returned True
launch(card, name, ch, started) ==
    IF card.proc # NoProc THEN <<card, ch>>
    ELSE IF ~started THEN <<[card EXCEPT !.status = "error", !.proc = NoProc], ch>>
    ELSE <<[card EXCEPT !.proc = NextPid(ch), !.status = "run",
                        !.run_btn = FALSE, !.stop_btn = TRUE],
           [ch EXCEPT ![NextPid(ch)] = [card |-> name, st |-> "running"]]>>

\* stop: terminate(), then either waitForFinished(2000) sees the process end
\* (finished is emitted inside the wait and runs _on_finished) or it times
\* out and kill() is sent; _on_finished() is called in both cases
stop(card, ch, in_time) ==
    IF card.proc = NoProc THEN <<card, ch>>
    ELSE <<on_finished(card),
           [ch EXCEPT ![card.proc].st = IF in_time THEN "gone" ELSE "killed"]>>

\* the Open button of a card
Open(c) ==
    /\ cards[c].run_btn
    /\ cards[c].proc = NoProc => NextPid(children) \in Pids
    /\ \E started \in BOOLEAN :
       \E r \in {launch(cards[c], c, children, started)} :
          /\ cards' = [cards EXCEPT ![c] = r[1]]
          /\ children' = r[2]
    /\ UNCHANGED not_launcher

\* the Stop button of a card
Stop(c) ==
    /\ cards[c].stop_btn
    /\ \E in_time \in BOOLEAN :
       \E r \in {stop(cards[c], children, in_time)} :
          /\ cards' = [cards EXCEPT ![c] = r[1]]
          /\ children' = r[2]
    /\ UNCHANGED not_launcher

\* self.cards: sorted(APP_DIR.glob("ui_*.py"))
CardList == <<"ui_fuel_sheet.py", "ui_sludge.py">>

\* open_all_visible from the k-th card on: start_if_idle each
RECURSIVE open_all(_, _, _, _)
open_all(k, cds, ch, started) ==
    IF k > Len(CardList) THEN <<cds, ch>>
    ELSE IF cds[CardList[k]].proc # NoProc THEN open_all(k + 1, cds, ch, started)
    ELSE open_all(k + 1,
             [cds EXCEPT ![CardList[k]] =
                 launch(cds[CardList[k]], CardList[k], ch, started[CardList[k]])[1]],
             launch(cds[CardList[k]], CardList[k], ch, started[CardList[k]])[2],
             started)

\* the Open All button
OpenAll ==
    /\ Cardinality({c \in Cards : cards[c].proc = NoProc})
          <= Cardinality({p \in Pids : children[p].st = "none"})
    /\ \E started \in [Cards -> BOOLEAN] :
       \E r \in {open_all(1, cards, children, started)} :
          /\ cards' = r[1]
          /\ children' = r[2]
    /\ UNCHANGED not_launcher

\* stop_all: stop_if_running each card
stop_all(cds, ch, in_time) ==
    <<[c \in Cards |-> IF cds[c].proc # NoProc THEN on_finished(cds[c]) ELSE cds[c]],
      [p \in Pids |->
          IF \E c \in Cards : cds[c].proc = p
          THEN [ch[p] EXCEPT !.st =
                   IF in_time[CHOOSE c \in Cards : cds[c].proc = p] THEN "gone" ELSE "killed"]
          ELSE ch[p]]>>

\* the Stop All button
StopAll ==
    /\ \E in_time \in [Cards -> BOOLEAN] :
       \E r \in {stop_all(cards, children, in_time)} :
          /\ cards' = r[1]
          /\ children' = r[2]
    /\ UNCHANGED not_launcher

\* a process ends (its window is closed), or the end of a killed process is
\* noticed: QProcess emits finished, connected to _on_finished of the card
\* that started it
Finished(p) ==
    /\ children[p].st \in {"running", "killed"}
    /\ children' = [children EXCEPT ![p].st = "gone"]
    /\ cards' = [cards EXCEPT ![children[p].card] = on_finished(cards[children[p].card])]
    /\ UNCHANGED not_launcher

\* ------------------------------------------------------------------
\* ops_db.py and ops_cli.py: the session commands

\* the sessions the table may come to hold
MaxSessions == 2

\* CREATE TABLE IF NOT EXISTS sessions (...)
SessionColumns ==
    {"id", "kind", "started_at", "ended_at", "title", "counterparty", "remarks"}

\* kind TEXT CHECK (kind IN ('bunkering','transfer','survey')) NOT NULL
SessionKindCheck == {"bunkering", "transfer", "survey"}

\* --kind, choices=["survey","bunkering","other"]
CliKinds == {"survey", "bunkering", "other"}

CliTitles == {<<"a">>, <<"b">>}

\* --id
CliSessionIds == 1..(MaxSessions + 1)

SessionOut(cmd, status, args, listing) ==
    [cmd |-> cmd, status |-> status, args |-> args, listing |-> listing]

\* start_session: INSERT INTO sessions(kind, started_at, title, counterparty,
\* remarks); the row, or NULL where the CHECK on kind fails (IntegrityError)
start_session(rows, kind, title) ==
    IF kind \notin SessionKindCheck THEN NULL
    ELSE [c \in SessionColumns |->
             CASE c = "id" -> <<Len(rows) + 1>>
               [] c = "kind" -> <<kind>>
               [] c = "started_at" -> <<"t", Len(rows) + 1>>
               [] c = "title" -> title
               [] OTHER -> NULL]

\* close_session: UPDATE sessions SET closed_at = CURRENT_TIMESTAMP WHERE
\* id = ?; the rows, or NULL where the statement names a column the table
\* does not have (OperationalError)
close_session(rows, session_id) ==
    IF "closed_at" \notin SessionColumns THEN NULL
    ELSE [i \in 1..Len(rows) |->
             IF rows[i]["id"] = <<session_id>>
             THEN [rows[i] EXCEPT !["closed_at"] = <<"CURRENT_TIMESTAMP">>]
             ELSE rows[i]]

\* SELECT id, kind, title, started_at, closed_at FROM sessions [WHERE
\* closed_at IS NULL]: what is printed for each row, or NULL where the
\* statement fails (OperationalError)
sessions_list(rows, open_only) ==
    IF "closed_at" \notin SessionColumns THEN NULL
    ELSE {[id |-> rows[i]["id"],
           status |-> IF rows[i]["closed_at"] = NULL THEN "OPEN" ELSE "CLOSED"] :
             i \in {j \in 1..Len(rows) :
                       open_only => rows[j]["closed_at"] = NULL}}

CmdSessionsStart ==
    /\ pc = "ready"
    /\ \E kind \in CliKinds, title \in CliTitles :
       \E row \in {start_session(ops_sessions, kind, title)} :
          IF row = NULL
          THEN /\ out' = SessionOut("session-start", "IntegrityError",
                                    [kind |-> kind, title |-> title], NULL)
               /\ UNCHANGED ops_sessions
          ELSE /\ Len(ops_sessions) < MaxSessions
               /\ ops_sessions' = Append(ops_sessions, row)
               /\ out' = SessionOut("session-start", "ok",
                                    [kind |-> kind, title |-> title,
                                     id |-> Len(ops_sessions) + 1], NULL)
    /\ pc' = "done"
    /\ UNCHANGED not_sessions

CmdSessionsClose ==
    /\ pc = "ready"
    /\ \E id \in CliSessionIds :
       \E rows \in {close_session(ops_sessions, id)} :
          IF rows = NULL
          THEN /\ out' = SessionOut("session-close", "OperationalError",
                                    [id |-> id], NULL)
               /\ UNCHANGED ops_sessions
          ELSE /\ ops_sessions' = rows
               /\ out' = SessionOut("session-close", "ok", [id |-> id], NULL)
    /\ pc' = "done"
    /\ UNCHANGED not_sessions

CmdSessionsList ==
    /\ pc = "ready"
    /\ \E open_only \in BOOLEAN :
       \E listing \in {sessions_list(ops_sessions, open_only)} :
          out' = SessionOut("sessions",
                            IF listing = NULL THEN "OperationalError" ELSE "ok",
                            [open_only |-> open_only], listing)
    /\ pc' = "done"
    /\ UNCHANGED ops_sessions
    /\ UNCHANGED not_sessions

\* ------------------------------------------------------------------
\* load_normalized_to_db.py: the reload of the calibration table, and a
\* pipeline invocation that reads the table meanwhile

\* sorted(glob("*_normalized.csv")): the tanks that have a CSV
CsvNames == <<"T1", "T2", "T3", "T5", "T6", "T7", "T8">>

\* the rows of the k-th CSV with the ids the append gives them
CsvOf(k) ==
    {[id |-> i, row |-> CsvRows[i]] :
        i \in {j \in 1..Len(CsvRows) : CsvRows[j].name = CsvNames[k]}}

\* main is not running; bad names the CSV that lacks a required column, 0
\* when every CSV has them all
NoLoad == [at |-> "idle", k |-> 0, bad |-> 0]

\* main up to the loop: with conn: conn.execute("DELETE FROM readings;")
LoaderDelete ==
    /\ loader.at \in {"idle", "failed"}
    /\ \E bad \in 0..Len(CsvNames) :
          loader' = [at |-> "loading", k |-> 1, bad |-> bad]
    /\ readings' = {}
    /\ UNCHANGED not_loader

\* load_one_csv: ValueError for missing columns, else df.to_sql(append),
\* which commits
LoaderLoadOne ==
    /\ loader.at = "loading" /\ loader.k <= Len(CsvNames)
    /\ IF loader.k = loader.bad
       THEN /\ loader' = [loader EXCEPT !.at = "failed"]
            /\ UNCHANGED readings
       ELSE /\ loader' = [loader EXCEPT !.k = loader.k + 1]
            /\ readings' = readings \cup CsvOf(loader.k)
    /\ UNCHANGED not_loader

\* the summary, conn.close()
LoaderDone ==
    /\ loader.at = "loading" /\ loader.k > Len(CsvNames)
    /\ loader' = NoLoad
    /\ UNCHANGED readings
    /\ UNCHANGED not_loader

ReadTanks == {"T1", "T3", "T6", "T8"}

ReadLevels == {Num(50), Num(100)}

\* a pipeline invocation, _compute_volumes on its own connection
PipelineRead ==
    /\ pc = "ready"
    /\ \E name \in ReadTanks, sounding \in ReadLevels, heel \in OpsHeels :
       \E v \in {ops_compute_volumes(readings, name, Num(0), sounding, NULL, heel)} :
          out' = IF v = NULL
                 THEN Shown("read", "NoBaseVolume",
                            Args(name, Num(0), sounding, NULL, heel, NULL, NULL), Nothing)
                 ELSE Shown("read", "ok",
                            Args(name, Num(0), sounding, NULL, heel, NULL, NULL),
                            <<v[1], v[2], v[3], NULL, NULL, NULL>>)
    /\ pc' = "done"
    /\ UNCHANGED <<readings, ops_tanks, ops_readings>>
    /\ UNCHANGED aux

\* ------------------------------------------------------------------
\* Specifications

Init ==
    /\ ops_sessions = <<>>
    /\ loader = NoLoad
    /\ cards = [c \in Cards |-> NewCard]
    /\ children = [p \in Pids |-> NoChild]
    /\ calls = [i \in CallIds |-> NoCall]
    /\ readings = LoadedRows
    /\ ops_tanks = {}
    /\ ops_readings = <<>>
    /\ pc = "ready"
    /\ out = NoOut

\* the capacity engine behind the volume command and the fuel sheet
Next == CmdVolume \/ FuelCalcOne \/ Exit

Spec == Init /\ [][Next]_vars

\* the reading-add command and the operational store
NextOps == CmdReadingsAdd \/ Exit

SpecOps == Init /\ [][NextOps]_vars

\* calls of vcf_54b
NextVcf == Vcf54b \/ Exit

SpecVcf == Init /\ [][NextVcf]_vars

\* invocations of _compute_volumes side by side
NextCalls ==
    \E i \in CallIds :
        CallConnect(i) \/ CallBase(i) \/ CallHeel(i) \/ CallFinally(i) \/ CallDone(i)

SpecCalls == Init /\ [][NextCalls]_vars

\* the launcher window
NextLauncher ==
    \/ \E c \in Cards : Open(c) \/ Stop(c)
    \/ OpenAll
    \/ StopAll
    \/ \E p \in Pids : Finished(p)

SpecLauncher == Init /\ [][NextLauncher]_vars

\* the sheets that take their observed volume from _compute_volumes
NextSheets == SludgeCompute \/ OtherCalcOne \/ FuelCalcOne \/ Exit

SpecSheets == Init /\ [][NextSheets]_vars

\* a reload of the calibration table beside pipeline invocations
NextLoader == LoaderDelete \/ LoaderLoadOne \/ LoaderDone \/ PipelineRead \/ Exit

SpecLoader == Init /\ [][NextLoader]_vars

\* the session commands of the ops CLI
NextSessions == CmdSessionsStart \/ CmdSessionsClose \/ CmdSessionsList \/ Exit

SpecSessions == Init /\ [][NextSessions]_vars

\* ------------------------------------------------------------------
\* Properties.  The volume command shows what _base_volume returned (out.base),
\* so the resolver's laws are stated on the command that has just ended.

VolumeShown == pc = "done" /\ out.cmd = "volume"

ReadingShown == pc = "done" /\ out.cmd = "reading-add"

OutAxis == IF out.args.sounding # NULL THEN "sounding_cm" ELSE "ullage_cm"

OutLevel == IF out.args.sounding # NULL THEN out.args.sounding ELSE out.args.ullage

\* a row's trim is the requested trim: closer to it than the tolerance of
\* the exact-trim query (NULL: the row carries no trim)
AtTrim(row_trim, trim) ==
    IF trim = NULL \/ row_trim = NULL THEN row_trim = trim
    ELSE RLt(RAbs(RSub(row_trim, trim)), Frac(1, TrimTolDen))

\* the base-volume rows of the table for a tank, a trim and an axis
BaseRowsAt(name, trim, axis_field) ==
    {r \in readings :
        /\ r.row.name = name
        /\ r.row.heel = None
        /\ AtTrim(r.row.trim, trim)
        /\ AxisOf(r, axis_field) # NULL
        /\ r.row.volume_m3 # NULL}

\* the trims the table holds for a tank, on rows of any kind
TrimsOf(name) ==
    {r.row.trim : r \in {q \in readings : q.row.name = name /\ q.row.trim # NULL}}

SetMin(S) == CHOOSE a \in S : \A b \in S : RLe(a, b)

SetMax(S) == CHOOSE a \in S : \A b \in S : RLe(b, a)

FirstRow(R, axis_field) ==
    CHOOSE r \in R : \A o \in R : RLe(AxisOf(r, axis_field), AxisOf(o, axis_field))

LastRow(R, axis_field) ==
    CHOOSE r \in R : \A o \in R : RLe(AxisOf(o, axis_field), AxisOf(r, axis_field))

\* the command ended with the volume v, or with "No base volume found" for None
OutBaseIs(v) ==
    IF v = NULL THEN out.status = "NoBaseVolume"
    ELSE out.status = "ok" /\ out.base = v

\* C1: every reading-add that succeeds shows and stores observed = base +
\* heel correction, volume at 15 C = observed * vcf and mass = volume at 15 C *
\* density15; tank T1 (table (0,0),(100,100) at trim 0, no heel rows) at level
\* 50, density 850 and temperature 15 gives 50, 0, 50, vcf 1, 50 and 42500.
C1_PipelineIdentities ==
    /\ (ReadingShown /\ out.status = "ok") =>
          /\ out.total = RAdd(out.base, out.corr)
          /\ out.v15 = RMul(out.total, out.vcf)
          /\ out.mass = RMul(out.v15, out.args.dens)
          /\ (/\ out.args.name = "T1" /\ out.args.trim = Num(0)
              /\ out.args.sounding = Num(50) /\ out.args.heel = None
              /\ out.args.temp = Num(15) /\ out.args.dens = Num(850))
             => /\ out.base = Num(50) /\ out.corr = Num(0) /\ out.total = Num(50)
                /\ out.vcf = Num(1) /\ out.v15 = Num(50) /\ out.mass = Num(42500)
    /\ \A i \in 1..Len(ops_readings) :
          /\ ops_readings[i].volume_obs_m3 =
                 RAdd(ops_readings[i].base_vol_m3, ops_readings[i].heel_corr_m3)
          /\ ops_readings[i].volume_15c_m3 =
                 RMul(ops_readings[i].volume_obs_m3, ops_readings[i].vcf)
          /\ ops_readings[i].mass_kg =
                 RMul(ops_readings[i].volume_15c_m3, ops_readings[i].density15_kg_m3)

\* the T1 scenario has been computed and its row stored
C1_Witness ==
    /\ ReadingShown /\ out.status = "ok"
    /\ out.args.name = "T1" /\ out.args.sounding = Num(50)
    /\ out.args.temp = Num(15) /\ out.args.dens = Num(850)
    /\ out.mass = Num(42500)
    /\ Len(ops_readings) = 1 /\ ops_readings[1].mass_kg = Num(42500)

\* C2: at a trim that has base rows and an axis value tabulated at that trim,
\* the resolved base volume is exactly the stored volume of that row.
C2_NodeIdentity ==
    VolumeShown =>
        \A r \in BaseRowsAt(out.args.name, out.args.trim, OutAxis) :
            AxisOf(r, OutAxis) = OutLevel =>
                out.status = "ok" /\ out.base = r.row.volume_m3

\* the inner node (50, 40) of T3 has been queried
C2_Witness ==
    /\ VolumeShown /\ out.args.name = "T3" /\ out.args.trim = Num(0)
    /\ out.args.sounding = Num(50) /\ out.base = Num(40)

\* C3: with base rows at the requested trim, a level below the smallest
\* tabulated axis value gives the first row's volume, a level above the
\* largest gives the last row's volume, and the result never leaves the range
\* of the tabulated volumes.
C3_ClampingLaw ==
    VolumeShown =>
        LET R == BaseRowsAt(out.args.name, out.args.trim, OutAxis)
        IN  R # {} =>
              /\ out.status = "ok"
              /\ RLt(OutLevel, AxisOf(FirstRow(R, OutAxis), OutAxis))
                    => out.base = FirstRow(R, OutAxis).row.volume_m3
              /\ RLt(AxisOf(LastRow(R, OutAxis), OutAxis), OutLevel)
                    => out.base = LastRow(R, OutAxis).row.volume_m3
              /\ \E a \in R, b \in R :
                    /\ RLe(a.row.volume_m3, out.base)
                    /\ RLe(out.base, b.row.volume_m3)

\* the ullage table of T5, (0,100),(100,0), has been queried above its end
C3_Witness ==
    /\ VolumeShown /\ out.args.name = "T5" /\ out.args.trim = Num(0)
    /\ out.args.ullage = Num(150) /\ out.base = Num(0)

\* C4: a level strictly between two adjacent tabulated axis values x0 < x < x1
\* gives (1-t)*y0 + t*y1 with t = (x-x0)/(x1-x0) for exactly that pair; when
\* the selected pair has x0 = x1 the result is y0.
C4_TightestPair ==
    VolumeShown =>
        LET R == BaseRowsAt(out.args.name, out.args.trim, OutAxis)
            p == cli_nearest_pair_along(readings, out.args.name, out.args.trim,
                                        None, OutAxis, OutLevel)
        IN  /\ \A a \in R, b \in R :
                  (/\ RLt(AxisOf(a, OutAxis), OutLevel)
                   /\ RLt(OutLevel, AxisOf(b, OutAxis))
                   /\ ~ \E c \in R : /\ RLt(AxisOf(a, OutAxis), AxisOf(c, OutAxis))
                                     /\ RLt(AxisOf(c, OutAxis), AxisOf(b, OutAxis)))
                  => \E t \in {RDiv(RSub(OutLevel, AxisOf(a, OutAxis)),
                                    RSub(AxisOf(b, OutAxis), AxisOf(a, OutAxis)))} :
                        /\ out.status = "ok"
                        /\ out.base = RAdd(RMul(RSub(Num(1), t), a.row.volume_m3),
                                           RMul(t, b.row.volume_m3))
            /\ (p[1] # NULL /\ p[1] = p[3]) => out.base = p[2]

\* level 75 of T3 lies between the nodes (50, 40) and (100, 100)
C4_Witness ==
    /\ VolumeShown /\ out.args.name = "T3" /\ out.args.trim = Num(0)
    /\ out.args.sounding = Num(75) /\ out.base = Num(70)

\* C5: when the requested trim has no base rows and the nearest available
\* trims t0 at or below it and t1 at or above it satisfy t0 < trim < t1 and
\* both resolve to v0 and v1, the base volume is v0 + (trim-t0)/(t1-t0) *
\* (v1-v0); T2, tabulated at trims -2 and 2, gives 100 at trim 0, level 100.
C5_CrossTrimInterpolation ==
    VolumeShown =>
        LET lower == {t \in TrimsOf(out.args.name) : RLe(t, out.args.trim)}
            upper == {t \in TrimsOf(out.args.name) : RLe(out.args.trim, t)}
        IN  /\ (/\ BaseRowsAt(out.args.name, out.args.trim, OutAxis) = {}
                /\ lower # {} /\ upper # {})
               => \E t0 \in {SetMax(lower)}, t1 \in {SetMin(upper)} :
                  \E v0 \in {cli_base_volume_at_trim(readings, out.args.name, t0,
                                                     OutAxis, OutLevel)},
                     v1 \in {cli_base_volume_at_trim(readings, out.args.name, t1,
                                                     OutAxis, OutLevel)} :
                     (/\ RLt(t0, out.args.trim) /\ RLt(out.args.trim, t1)
                      /\ v0 # NULL /\ v1 # NULL)
                     => /\ out.status = "ok"
                        /\ out.base =
                              RAdd(v0, RMul(RDiv(RSub(out.args.trim, t0), RSub(t1, t0)),
                                            RSub(v1, v0)))
            /\ (/\ out.args.name = "T2" /\ out.args.trim = Num(0)
                /\ out.args.sounding = Num(100))
               => out.base = Num(100)

\* the scenario of T2 at trim 0, level 100
C5_Witness ==
    /\ VolumeShown /\ out.args.name = "T2" /\ out.args.trim = Num(0)
    /\ out.args.sounding = Num(100) /\ out.status = "ok" /\ out.base = Num(100)

\* C6: whenever some trim of the tank has base rows on the requested axis, the
\* volume command shows a volume, whatever trim is requested.
C6_FailsOnlyWithoutData ==
    VolumeShown =>
        ((\E r \in readings :
             /\ r.row.name = out.args.name
             /\ r.row.heel = None
             /\ r.row.trim # NULL
             /\ AxisOf(r, OutAxis) # NULL
             /\ r.row.volume_m3 # NULL)
         => out.status = "ok")

\* C7: a requested trim below the smallest or above the largest available trim
\* gives the volume resolved along the axis at that nearest trim alone; T2 at
\* trim 3, level 100 gives the 110 of trim 2, not a value extrapolated over trim.
C7_EdgeCollapse ==
    VolumeShown =>
        LET T == TrimsOf(out.args.name)
        IN  /\ (T # {} /\ \A t \in T : RLt(out.args.trim, t))
               => OutBaseIs(cli_base_volume_at_trim(readings, out.args.name,
                                                    SetMin(T), OutAxis, OutLevel))
            /\ (T # {} /\ \A t \in T : RLt(t, out.args.trim))
               => OutBaseIs(cli_base_volume_at_trim(readings, out.args.name,
                                                    SetMax(T), OutAxis, OutLevel))
            /\ (/\ out.args.name = "T2" /\ out.args.trim = Num(3)
                /\ out.args.sounding = Num(100))
               => out.base = Num(110)

\* T2 has been queried above its largest trim
C7_Witness ==
    /\ VolumeShown /\ out.args.name = "T2" /\ out.args.trim = Num(3)
    /\ out.args.sounding = Num(100) /\ out.base = Num(110)

\* the cross-trim law for volumes v0 and v1 resolved at a bracket t0 # t1: one
\* side alone is the result unchanged, and there is no result only if neither
\* side resolved
OneSidedLaw(v0, v1, result) ==
    /\ (v0 # NULL /\ v1 = NULL) => result = v0
    /\ (v0 = NULL /\ v1 # NULL) => result = v1
    /\ result = NULL <=> (v0 = NULL /\ v1 = NULL)

\* C8: in cross-trim resolution with t0 # t1, if exactly one bracketing trim
\* resolves, its volume is the result unchanged, and no volume results only if
\* neither resolves; the same holds for the copy in ops_cli.py, whose failure
\* is the ValueError of the fuel sheet row.
C8_OneSidedBracket ==
    /\ VolumeShown =>
          \E tt \in {cli_nearest_trims(cli_get_available_trims(readings, out.args.name),
                                       out.args.trim)} :
             (/\ BaseRowsAt(out.args.name, out.args.trim, OutAxis) = {}
              /\ tt[1] # NULL /\ tt[1] # tt[2])
             => /\ out.status = "NoBaseVolume" <=> out.base = NULL
                /\ OneSidedLaw(
                      cli_base_volume_at_trim(readings, out.args.name, tt[1],
                                              OutAxis, OutLevel),
                      cli_base_volume_at_trim(readings, out.args.name, tt[2],
                                              OutAxis, OutLevel),
                      out.base)
    /\ (/\ pc = "done" /\ out.cmd = "calc_one"
        /\ ~(out.args.sounding = NULL /\ out.args.ullage = Num(0))) =>
          \E tt \in {ops_nearest_trims(ops_get_available_trims(readings, out.args.name),
                                       out.args.trim)} :
             (/\ BaseRowsAt(out.args.name, out.args.trim, OutAxis) = {}
              /\ tt[1] # NULL /\ tt[1] # tt[2])
             => \E v \in {ops_base_volume(readings, out.args.name, out.args.trim,
                                          out.args.sounding, out.args.ullage)} :
                   /\ out.status = "ValueError" <=> v = NULL
                   /\ OneSidedLaw(
                         ops_base_volume_at_trim(readings, out.args.name, tt[1],
                                                 OutAxis, OutLevel),
                         ops_base_volume_at_trim(readings, out.args.name, tt[2],
                                                 OutAxis, OutLevel),
                         v)

\* T5 at trim 1 by sounding: trim 0 holds an ullage table only, trim 2 resolves
C8_Witness ==
    /\ VolumeShown /\ out.args.name = "T5" /\ out.args.trim = Num(1)
    /\ out.args.sounding = Num(50) /\ out.status = "ok" /\ out.base = Num(60)

\* C9: a reading-add whose base volume is unresolvable ends with the ValueError
\* of _compute_volumes, shows no correction, VCF, volume or mass, and leaves
\* the tanks and the readings of the operational store as they were.
C9_FailedReadingChangesNothing ==
    [][(/\ pc = "ready" /\ pc' = "done" /\ out'.cmd = "reading-add"
        /\ ops_base_volume(readings, out'.args.name, out'.args.trim,
                           out'.args.sounding, out'.args.ullage) = NULL)
       => /\ out'.status = "ValueError"
          /\ out'.corr = NULL /\ out'.vcf = NULL
          /\ out'.v15 = NULL /\ out'.mass = NULL
          /\ ops_tanks' = ops_tanks
          /\ ops_readings' = ops_readings]_vars

\* a reading-add has failed for the empty tank T4 over a store that holds a row
C9_Witness ==
    /\ ReadingShown /\ out.status = "ValueError" /\ out.args.name = "T4"
    /\ Len(ops_readings) = 1 /\ ops_tanks # {}
    /\ \A t \in ops_tanks : t.name # "T4"

\* C10: no command shows or stores a negative observed volume, volume at 15 C
\* or mass: a negative base + heel correction is shown and stored as 0.
C10_NegativeObservedClamped ==
    /\ (pc = "done" /\ out.status = "ok") =>
          \A v \in {out.total, out.v15, out.mass} : v # NULL => RLe(Num(0), v)
    /\ \A i \in 1..Len(ops_readings) :
          /\ RLe(Num(0), ops_readings[i].volume_obs_m3)
          /\ RLe(Num(0), ops_readings[i].volume_15c_m3)
          /\ RLe(Num(0), ops_readings[i].mass_kg)

\* ------------------------------------------------------------------
\* Heel correction

\* the heel-correction rows of the table for a tank, a trim (NULL: the rows
\* that carry no trim), a heel code and an axis
HeelRowsAt(name, trim, code, axis_field) ==
    {r \in readings :
        /\ r.row.name = name
        /\ r.row.heel = code
        /\ AtTrim(r.row.trim, trim)
        /\ AxisOf(r, axis_field) # NULL
        /\ r.row.correction_m3 # NULL}

\* a tank's heel-correction rows of any code, trim and axis
HeelRowsOf(name) ==
    {r \in readings : r.row.name = name /\ r.row.correction_m3 # NULL}

\* the value of a non-empty table R at x: clamped to the end rows, linear
\* between the two rows around x
TableValue(R, axis_field, field, x) ==
    LET lo == {r \in R : RLe(AxisOf(r, axis_field), x)}
        hi == {r \in R : RLe(x, AxisOf(r, axis_field))}
    IN  IF lo = {} THEN FieldOf(FirstRow(R, axis_field), field)
        ELSE IF hi = {} THEN FieldOf(LastRow(R, axis_field), field)
        ELSE LET a == LastRow(lo, axis_field)
                 b == FirstRow(hi, axis_field)
                 xa == AxisOf(a, axis_field)
                 xb == AxisOf(b, axis_field)
             IN  IF xa = xb THEN FieldOf(a, field)
                 ELSE RAdd(FieldOf(a, field),
                           RMul(RDiv(RSub(x, xa), RSub(xb, xa)),
                                RSub(FieldOf(b, field), FieldOf(a, field))))

\* the correction the table holds for a code at a trim and a level: from the
\* rows at that trim when any exist, otherwise from the rows without a trim,
\* otherwise 0
HeelTableCorr(name, trim, code, axis_field, x) ==
    IF HeelRowsAt(name, trim, code, axis_field) # {}
    THEN TableValue(HeelRowsAt(name, trim, code, axis_field), axis_field,
                    "correction_m3", x)
    ELSE IF HeelRowsAt(name, NULL, code, axis_field) # {}
    THEN TableValue(HeelRowsAt(name, NULL, code, axis_field), axis_field,
                    "correction_m3", x)
    ELSE Num(0)

\* the volume command has ended with a result
VolumeOk == VolumeShown /\ out.status = "ok"

\* what _parse_heel made of the command's --heel
OutHeel == cli_parse_heel(out.args.heel)

\* C11: the discrete heel lookup never fails: a volume command with a discrete
\* heel code shows the correction interpolated in the code's rows at the
\* requested trim when any exist, otherwise in the code's rows without a trim,
\* otherwise 0; a tank without heel-correction rows shows the correction 0
\* for every heel input.
C11_DiscreteHeelLookup ==
    VolumeOk =>
        /\ (OutHeel[1] = DISCRETE /\ Truthy(Upper(Strip(out.args.heel))))
              => out.corr = HeelTableCorr(out.args.name, out.args.trim,
                                Upper(Strip(out.args.heel)), OutAxis, OutLevel)
        /\ HeelRowsOf(out.args.name) = {} => out.corr = Num(0)

\* T6 holds P1 rows at trim 0 and without a trim: at trim 1 the lookup has
\* fallen back to the rows without a trim, (0,-10),(100,-4)
C11_Witness ==
    /\ VolumeOk /\ out.args.name = "T6" /\ out.args.trim = Num(1)
    /\ out.args.heel = P1 /\ out.args.sounding = Num(50)
    /\ out.corr = Num(-7)

\* the volume command has ended with a continuous heel
ContinuousShown == VolumeOk /\ OutHeel[1] \in {SideP, SideS}

\* the table's corrections at 1 and at 2 degrees on the side of the heel
OutC1 ==
    HeelTableCorr(out.args.name, out.args.trim,
                  IF OutHeel[1] = SideP THEN P1 ELSE S1, OutAxis, OutLevel)

OutC2 ==
    HeelTableCorr(out.args.name, out.args.trim,
                  IF OutHeel[1] = SideP THEN P2 ELSE S2, OutAxis, OutLevel)

\* C12: the continuous heel correction is two-segment piecewise linear in the
\* degrees: 0 for deg <= 0, deg * c1 for 0 < deg <= 1, c1 + (deg - 1) * (c2 -
\* c1) for 1 < deg <= 2, and a deg above 2 counts as 2; c1 and c2 are the
\* discrete corrections at P1 / P2 for Port and S-1 / S-2 for Starboard.
C12_ContinuousHeelPiecewise ==
    /\ ContinuousShown =>
          LET deg == OutHeel[2]
          IN  /\ RLt(Num(0), deg)
              /\ RLe(deg, Num(1)) => out.corr = RMul(deg, OutC1)
              /\ (RLt(Num(1), deg) /\ RLe(deg, Num(2)))
                    => out.corr = RAdd(OutC1, RMul(RSub(deg, Num(1)),
                                                  RSub(OutC2, OutC1)))
              /\ RLt(Num(2), deg) => out.corr = OutC2
    /\ VolumeShown =>
          \A side \in {SideP, SideS}, deg \in {Num(-1), Num(0)} :
              cli_continuous_heel_corr(readings, out.args.name, out.args.trim,
                  side, deg, out.args.sounding, out.args.ullage) = Num(0)

\* T6 at trim 0, sounding 50, heel 1.5 to Port: c1 = -4 from the P1 rows at
\* trim 0, c2 = -14 from the P2 rows without a trim, correction -4 + 0.5 * -10
C12_Witness ==
    /\ ContinuousShown /\ out.args.name = "T6" /\ out.args.trim = Num(0)
    /\ out.args.sounding = Num(50) /\ OutHeel = <<SideP, Frac(3, 2)>>
    /\ out.corr = Num(-9)

\* the ops_cli.py copy of the continuous correction, on the command's inputs
OutOpsContinuous ==
    ops_continuous_heel_corr(readings, out.args.name, out.args.trim,
        OutHeel[1], OutHeel[2], out.args.sounding, out.args.ullage)

\* the discrete correction of the ops_cli.py copy at 1 or 2 degrees on the
\* side of the heel
OutOpsDiscrete(deg) ==
    ops_heel_corr_at(readings, out.args.name, out.args.trim,
        IF OutHeel[1] = SideP THEN (IF deg = 1 THEN P1 ELSE P2)
        ELSE (IF deg = 1 THEN S1 ELSE S2),
        out.args.sounding, out.args.ullage)

\* C13: the continuous heel correction is continuous at the 1-degree seam and
\* hits the anchors: at deg = 1 it is c1, and the second segment's formula
\* gives c1 there as well; at deg = 2 and at any larger deg it is c2.  The
\* copy in ops_cli.py hits the discrete corrections of its own lookup
\* likewise.
C13_SeamAndAnchors ==
    ContinuousShown =>
        /\ OutHeel[2] = Num(1) =>
              /\ out.corr = OutC1
              /\ RAdd(OutC1, RMul(RSub(OutHeel[2], Num(1)), RSub(OutC2, OutC1)))
                    = out.corr
              /\ OutOpsContinuous = OutOpsDiscrete(1)
        /\ RLe(Num(2), OutHeel[2]) =>
              /\ out.corr = OutC2
              /\ OutOpsContinuous = OutOpsDiscrete(2)

\* T6 at trim 0, sounding 50, heel "1" (1 degree to Port): the correction is
\* c1 = -4, from the P1 rows at trim 0, while c2 = -14
C13_Witness ==
    /\ ContinuousShown /\ out.args.name = "T6" /\ out.args.trim = Num(0)
    /\ out.args.sounding = Num(50) /\ out.args.heel = <<"1">>
    /\ OutHeel = <<SideP, Num(1)>> /\ out.corr = Num(-4) /\ OutC2 = Num(-14)

\* _compute_volumes of ops_cli.py on the command's inputs
OutOpsVolumes ==
    ops_compute_volumes(readings, out.args.name, out.args.trim,
                        out.args.sounding, out.args.ullage, out.args.heel)

\* C14: when the heel input parses to None the heel correction is 0, no heel
\* code is looked up in the table, and the observed volume is the base
\* volume; cmd_volume and _compute_volumes alike.
C14_NoHeelNoCorrection ==
    /\ (VolumeOk /\ OutHeel[1] = None) =>
          /\ out.corr = Num(0)
          /\ out.total = out.base
          /\ cli_heel_queries(out.args.heel, OutHeel) = {}
    /\ (pc = "done" /\ ops_parse_heel(out.args.heel)[1] = None
                     /\ OutOpsVolumes # NULL) =>
          /\ OutOpsVolumes[2] = Num(0)
          /\ OutOpsVolumes[3] = OutOpsVolumes[1]

\* T6 holds heel rows at trim 0 and without a trim; heel "0" has parsed to
\* None and the volume at sounding 50 is shown as 50 + 0
C14_Witness ==
    /\ VolumeOk /\ out.args.name = "T6" /\ out.args.trim = Num(0)
    /\ out.args.sounding = Num(50) /\ out.args.heel = <<"0">>
    /\ OutHeel[1] = None /\ HeelRowsOf("T6") # {}
    /\ out.corr = Num(0) /\ out.total = Num(50)

\* sd is one of the three classifications: none, discrete, or continuous with
\* a side and positive degrees
IsHeelClass(sd) ==
    \/ sd[1] = None /\ sd[2] = NULL
    \/ sd[1] = DISCRETE /\ sd[2] = NULL
    \/ sd[1] \in {SideP, SideS} /\ sd[2] # NULL /\ RLt(Num(0), sd[2])

\* C15: _parse_heel is total: every --heel input, the missing one included,
\* gets exactly one of the classifications none, discrete, continuous(side,
\* degrees), nothing is raised, and the two copies (cli.py, ops_cli.py)
\* classify alike.
C15_ParseHeelTotal ==
    VolumeShown =>
        /\ Len(OutHeel) = 2
        /\ IsHeelClass(OutHeel)
        /\ ops_parse_heel(out.args.heel) = OutHeel

\* the unknown token "XX" has been classified (discrete), and so has the
\* missing input (none)
C15_Witness ==
    /\ VolumeShown /\ out.args.heel = <<"X", "X">>
    /\ OutHeel = <<DISCRETE, NULL>>
    /\ cli_parse_heel(None) = <<None, NULL>>

\* the --heel input is missing or the empty string
IsEmptyHeel(heel_raw) == heel_raw = None \/ heel_raw = <<>>

\* the --heel input holds whitespace only
IsBlankHeel(heel_raw) ==
    heel_raw # None /\ heel_raw # <<>> /\ Strip(heel_raw) = <<>>

\* the --heel input is a number and the number is 0
IsZeroHeel(heel_raw) ==
    heel_raw # None /\ ParseFloat(HeelText(heel_raw)) = Num(0)

\* C16: every empty input, every blank (whitespace-only) input and every
\* input that is numerically exactly 0 is classified as none.
C16_EmptyBlankZeroAreNone ==
    (VolumeShown /\ (\/ IsEmptyHeel(out.args.heel)
                     \/ IsBlankHeel(out.args.heel)
                     \/ IsZeroHeel(out.args.heel)))
        => OutHeel = <<None, NULL>>

\* the text with every decimal comma written as a dot
CommaAsDot(s) == [i \in 1..Len(s) |-> IF s[i] = "," THEN "." ELSE s[i]]

\* <<side, deg>> of an input of the form <number><P|S> or <P|S><number>, with
\* an optional separating space and a decimal comma or dot; NULL otherwise
SideNumberForm(heel_raw) ==
    LET t == CommaAsDot(HeelText(heel_raw))
    IN  IF MatchNumSide(t) # NULL THEN MatchNumSide(t) ELSE MatchSideNum(t)

\* C17: an input of the form <number><P|S> or <P|S><number>, with an optional
\* separating space and a decimal comma or dot, is classified continuous(side,
\* degrees), or none when the number is 0 (the four codes P1, P2, S-1, S-2
\* apart, which are discrete).
C17_SideNumberForms ==
    (/\ VolumeShown /\ Truthy(out.args.heel)
     /\ HeelText(out.args.heel) \notin {P1, P2, S1, S2}
     /\ SideNumberForm(out.args.heel) # NULL)
        => OutHeel = HeelOfMatch(SideNumberForm(out.args.heel))

\* the --heel input is one of P1, P2, S-1, S-2, ignoring case
IsKnownCode(heel_raw) == Truthy(heel_raw) /\ Upper(heel_raw) \in {P1, P2, S1, S2}

\* C18: an input equal to P1, P2, S-1 or S-2, ignoring case, is classified
\* discrete, ahead of the <P|S><number> form (P1 is not 1 degree to Port),
\* and its correction is the table's for the upper-cased code.
C18_KnownCodesDiscrete ==
    (VolumeShown /\ IsKnownCode(out.args.heel)) =>
        /\ OutHeel = <<DISCRETE, NULL>>
        /\ out.status = "ok" =>
              out.corr = HeelTableCorr(out.args.name, out.args.trim,
                             Upper(out.args.heel), OutAxis, OutLevel)

\* "p1" on T6 at trim 0, sounding 50: discrete, and the correction -4 of the
\* P1 rows at trim 0 is shown, although no row carries the heel "p1"
C18_Witness ==
    /\ VolumeOk /\ out.args.name = "T6" /\ out.args.trim = Num(0)
    /\ out.args.sounding = Num(50) /\ out.args.heel = <<"p", "1">>
    /\ OutHeel = <<DISCRETE, NULL>> /\ out.corr = Num(-4)
    /\ HeelRowsAt("T6", Num(0), <<"p", "1">>, "sounding_cm") = {}

\* the number a --heel input writes, NULL when it is not a number
HeelNumber(heel_raw) ==
    IF Truthy(heel_raw) THEN ParseFloat(HeelText(heel_raw)) ELSE NULL

\* C19: a non-zero input that parses as a signed number is classified
\* continuous, Port when the number is positive, Starboard when negative,
\* with the magnitude as degrees; "-0.5" is continuous(Starboard, 0.5).
C19_SignedNumberHeel ==
    VolumeShown =>
        /\ (HeelNumber(out.args.heel) # NULL /\ HeelNumber(out.args.heel) # Num(0))
              => /\ RLt(Num(0), HeelNumber(out.args.heel))
                       => OutHeel = <<SideP, HeelNumber(out.args.heel)>>
                 /\ RLt(HeelNumber(out.args.heel), Num(0))
                       => OutHeel = <<SideS, RSub(Num(0), HeelNumber(out.args.heel))>>
        /\ out.args.heel = <<"-", "0", ".", "5">> => OutHeel = <<SideS, Frac(1, 2)>>
        /\ out.args.heel = <<"2", ".", "5">> => OutHeel = <<SideP, Frac(5, 2)>>

\* "-0.5" on T6 at trim 0, sounding 50: half a degree to Starboard, and the
\* correction is half of the S-1 correction 7
C19_Witness ==
    /\ VolumeOk /\ out.args.name = "T6" /\ out.args.trim = Num(0)
    /\ out.args.sounding = Num(50) /\ out.args.heel = <<"-", "0", ".", "5">>
    /\ OutHeel = <<SideS, Frac(1, 2)>> /\ out.corr = Frac(7, 2)

\* the --heel input matches none of the parser's rules: not empty, not one of
\* the four codes, not a number, not a number with a side letter
IsFallbackHeel(heel_raw) ==
    /\ Truthy(heel_raw)
    /\ HeelText(heel_raw) \notin {P1, P2, S1, S2}
    /\ ParseFloat(HeelText(heel_raw)) = NULL
    /\ MatchNumSide(HeelText(heel_raw)) = NULL
    /\ MatchSideNum(HeelText(heel_raw)) = NULL

\* C20: an input that matches none of the other parser rules is classified
\* discrete and looked up under the code as typed: the correction shown is the
\* table's for exactly that code, and 0 when the table has no rows for it, in
\* which case the observed volume is the base volume.
C20_FallbackCodeVerbatim ==
    (VolumeShown /\ IsFallbackHeel(out.args.heel)) =>
        /\ OutHeel = <<DISCRETE, NULL>>
        /\ out.status = "ok" =>
              /\ out.corr = HeelTableCorr(out.args.name, out.args.trim,
                                 out.args.heel, OutAxis, OutLevel)
              /\ (/\ HeelRowsAt(out.args.name, out.args.trim, out.args.heel,
                                 OutAxis) = {}
                  /\ HeelRowsAt(out.args.name, NULL, out.args.heel, OutAxis) = {})
                    => (out.corr = Num(0) /\ out.total = out.base)

\* ------------------------------------------------------------------
\* Volume correction factor

\* vcf_54b has returned
VcfShown == pc = "done" /\ out.cmd = "vcf_54b" /\ out.status = "ok"

\* the region of Table 54B a density lies in, by its intervals
RegionOf(rho) ==
    {k \in 1..4 :
        \/ k = 1 /\ QLe(rho, Num(770))
        \/ k = 2 /\ QLt(Num(770), rho) /\ QLt(rho, Num(778))
        \/ k = 3 /\ QLe(Num(778), rho) /\ QLt(rho, Num(839))
        \/ k = 4 /\ QLe(Num(839), rho)}

\* alpha * rho ** 2 by the formula of region k: (346.42278 + 0.43884 * rho) /
\* rho ** 2, -0.0033612 + 2680.32 / rho ** 2, 594.5418 / rho ** 2 and
\* (186.9696 + 0.48618 * rho) / rho ** 2
Table54B(k, rho) ==
    IF k = 1 THEN QAdd(Frac(34642278, 100000), QMul(Frac(43884, 100000), rho))
    ELSE IF k = 2
    THEN QAdd(Frac(268032, 100), QMul(QMul(rho, rho), Frac(-33612, 10000000)))
    ELSE IF k = 3 THEN Frac(5945418, 10000)
    ELSE QAdd(Frac(1869696, 10000), QMul(Frac(48618, 100000), rho))

\* C21: vcf_54b picks the expansion formula by exact thresholds, every
\* positive density in exactly one region: rho <= 770 the first, 770 < rho <
\* 778 the second, 778 <= rho < 839 the third, rho >= 839 the fourth; 770 is in
\* the first region, 778 in the third, 839 in the fourth.
C21_RegionSelection ==
    /\ VcfShown =>
          /\ RegionOf(out.args.dens) = {vcf_region(out.args.dens)}
          /\ \A k \in RegionOf(out.args.dens) :
                vcf_alpha_num(out.args.dens) = Table54B(k, out.args.dens)
    /\ vcf_region(Num(770)) = 1
    /\ vcf_region(Num(778)) = 3
    /\ vcf_region(Num(839)) = 4

\* vcf_54b has been called at the threshold 770, in the first region, where
\* alpha * rho ** 2 is 346.42278 + 0.43884 * 770
C21_Witness ==
    /\ VcfShown /\ out.args.dens = Num(770) /\ out.args.temp = Num(25)
    /\ vcf_region(out.args.dens) = 1
    /\ vcf_alpha_num(out.args.dens) = Frac(68432958, 100000)

\* C22: at 15 C the factor is 1 for every valid density, in each of the four
\* regions: a zero temperature delta gives no correction, and the volume at
\* 15 C is the observed volume.
C22_UnityAtFifteen ==
    (VcfShown /\ out.args.temp = Num(15)) =>
        /\ out.vcf = Num(1)
        /\ \A v_obs \in {Num(0), Num(50), Frac(241, 2)} : RMul(v_obs, out.vcf) = v_obs

\* vcf_54b has returned 1 at 15 C for a density of the transition region
C22_Witness ==
    /\ VcfShown /\ out.args.temp = Num(15) /\ out.args.dens = Num(774)
    /\ vcf_region(out.args.dens) = 2 /\ out.vcf = Num(1)

\* the two regions that meet at the boundary density rho (770 or 778)
RegionsAt(rho) == IF rho = Num(770) THEN <<1, 2>> ELSE <<2, 3>>

\* alpha * rho ** 2 under the formula below the boundary minus the one above
AlphaGapAt(rho) ==
    QAdd(vcf_alpha_num_in(RegionsAt(rho)[1], rho),
         QMul(Num(-1), vcf_alpha_num_in(RegionsAt(rho)[2], rho)))

\* C23: the factor is continuous across the boundaries 770 and 778 for a
\* temperature other than 15 C: the alphas of the two adjacent region
\* formulas agree at the boundary.  Stated with a tolerance far above
\* floating-point noise: alpha * rho ** 2, a number near 600, differs by less
\* than 1 between the two formulas.
C23_BoundaryContinuity ==
    (VcfShown /\ out.args.dens \in {Num(770), Num(778)}
              /\ out.args.temp # Num(15))
        => QLt(RAbs(AlphaGapAt(out.args.dens)), Num(1))

\* ------------------------------------------------------------------
\* Concurrent invocations

\* _compute_volumes of the invocation's arguments, run alone
AloneResult(c) ==
    ops_compute_volumes(LoadedRows, c.args.name, c.args.trim, c.args.sounding,
                        c.args.ullage, c.args.heel)

\* C24: the engine is stateless per call: however concurrent invocations of
\* _compute_volumes over an unchanged calibration table interleave, each one
\* returns the (base, correction, observed) it returns when run alone, raises
\* exactly when it raises alone, and has closed the connection it opened on
\* every path out, the NoBaseVolume failure included.
C24_StatelessPerCall ==
    /\ readings = LoadedRows
    /\ \A i \in CallIds :
          /\ calls[i].at = "returned" =>
                (calls[i].res # NULL /\ calls[i].res = AloneResult(calls[i]))
          /\ calls[i].at = "raised" => AloneResult(calls[i]) = NULL
          /\ calls[i].at \in {"idle", "returned", "raised"} => ~calls[i].conn

\* one invocation has failed for the empty tank T4 with its connection
\* closed while the other, begun before it, holds its connection open
\* between the base volume and the heel correction of T6
C24_Witness ==
    /\ calls[1].at = "raised" /\ calls[1].args.name = "T4" /\ ~calls[1].conn
    /\ calls[2].at = "based" /\ calls[2].args.name = "T6" /\ calls[2].conn

\* ------------------------------------------------------------------
\* Launcher

\* the processes a card has started that are running (a process that was
\* killed and whose end has not been noticed yet is not counted)
Alive(c) == {p \in Pids : children[p].card = c /\ children[p].st = "running"}

\* C25: for each launcher card, in every state any sequence of Open, Stop,
\* Open All, Stop All, start failures and finished notifications leads to, at
\* most one process started by the card is alive, and the card records a
\* process (proc set, status Running, Open disabled, Stop enabled) exactly
\* when that process is alive; the late notification of a process killed
\* after the 2 s wait does not mark a relaunched process as exited.
C25_CardTracksChild ==
    \A c \in Cards :
        /\ Cardinality(Alive(c)) <= 1
        /\ cards[c].proc # NoProc <=> Alive(c) # {}
        /\ cards[c].proc # NoProc =>
              /\ Alive(c) = {cards[c].proc}
              /\ cards[c].status = "run"
              /\ ~cards[c].run_btn /\ cards[c].stop_btn
        /\ cards[c].proc = NoProc =>
              /\ cards[c].status # "run"
              /\ cards[c].run_btn /\ ~cards[c].stop_btn

\* ------------------------------------------------------------------
\* Sessions

SessionRow(id) ==
    {ops_sessions[i] : i \in {j \in 1..Len(ops_sessions) : ops_sessions[j]["id"] = <<id>>}}

\* the close timestamp of a row, NULL while the session is open
ClosedMark(row) ==
    IF "closed_at" \in DOMAIN row THEN row["closed_at"] ELSE NULL

\* C26: a session started with any of the kinds the CLI offers (survey,
\* bunkering, other) is created and open; closing an existing session
\* succeeds and leaves it with a close timestamp; the listing succeeds, shows
\* a session CLOSED exactly when it has a close timestamp and, with
\* --open-only, leaves the closed sessions out.
C26_SessionLifecycle ==
    /\ out.cmd = "session-start" =>
          /\ out.status = "ok"
          /\ \E row \in SessionRow(out.args.id) :
                row["kind"] = <<out.args.kind>> /\ ClosedMark(row) = NULL
    /\ (out.cmd = "session-close" /\ SessionRow(out.args.id) # {}) =>
          /\ out.status = "ok"
          /\ \A row \in SessionRow(out.args.id) : ClosedMark(row) # NULL
    /\ out.cmd = "sessions" =>
          /\ out.status = "ok"
          /\ \A l \in out.listing :
                \E row \in SessionRow(l.id[1]) :
                    /\ l.status = "CLOSED" <=> ClosedMark(row) # NULL
                    /\ out.args.open_only => ClosedMark(row) = NULL

\* ------------------------------------------------------------------
\* The two copies of the engine

\* the volume command ended as _compute_volumes ends for the same table and
\* the same arguments: both without a base volume, or both with the same
\* base, heel correction and total
OutAsOps ==
    \E v \in {ops_compute_volumes(readings, out.args.name, out.args.trim,
                                  out.args.sounding, out.args.ullage, out.args.heel)} :
        IF v = NULL THEN out.status = "NoBaseVolume"
        ELSE /\ out.status = "ok"
             /\ out.base = v[1] /\ out.corr = v[2] /\ out.total = v[3]

\* the requested trim is not a trim of the tank's table but lies less than
\* the tolerance 1e-6 from one
OutTrimNear ==
    /\ out.args.trim \notin TrimsOf(out.args.name)
    /\ \E t \in TrimsOf(out.args.name) :
          RLt(RAbs(RSub(t, out.args.trim)), Frac(1, TrimTolDen))

\* C27: for every tank, trim, axis, level and heel, the engine of cli.py and
\* the engine of ops_cli.py give the same outcome on the same table: the same
\* base volume, heel correction and total, or both no base volume; requested
\* trims less than 1e-6 from a tabulated trim included.
C27_EngineCopiesAgree == VolumeShown => OutAsOps

\* on every other requested trim the two copies do agree
C27_AgreeOnOtherTrims == (VolumeShown /\ ~OutTrimNear) => OutAsOps

\* ------------------------------------------------------------------
\* The sheets

\* what _compute_volumes returns for the arguments of the sheet's call on
\* the axis the sheet selected
OutVolumes ==
    ops_compute_volumes(readings, out.args.name, out.args.trim,
                        out.args.sounding,
                        IF out.args.sounding # NULL THEN NULL ELSE out.args.ullage,
                        out.args.heel)

SludgeShown == pc = "done" /\ out.cmd = "sludge" /\ out.status = "ok"

OtherShown == pc = "done" /\ out.cmd = "other_calc_one" /\ out.status = "ok"

\* C28: the sheets that take an observed volume from _compute_volumes use
\* its third result, base + heel correction: compute_obs_vol_m3 of the sludge
\* sheet returns base + heel correction for every tank, trim, heel token and
\* sounding, and the other-tank sheet shows that volume, clamped at 0.
C28_SheetsUseObserved ==
    /\ SludgeShown => out.total = OutVolumes[3]
    /\ OtherShown => out.total = RMax(Num(0), OutVolumes[3])

\* the other-tank sheet alone does use the third result
C28_OtherSheetUsesObserved == OtherShown => out.total = RMax(Num(0), OutVolumes[3])

CalcShown == pc = "done" /\ out.cmd = "calc_one"

\* the row's level is 0 on the ullage axis
OutUllageZero == out.args.sounding = NULL /\ out.args.ullage = Num(0)

\* the outputs of the row are vcf_54b(density, temperature), v15 =
\* max(0, base + correction) * vcf and mass = v15 * density / 1000
OutFuelRow ==
    /\ out.status = "ok"
    /\ out.vcf \in vcf_54b(out.args.dens, out.args.temp)
    /\ out.v15 = RMul(RMax(Num(0), OutVolumes[3]), out.vcf)
    /\ out.mass = RDiv(RMul(out.v15, out.args.dens), Num(1000))

\* C29: for every row of the fuel sheet for which the pipeline resolves a
\* base volume (and the density is one vcf_54b accepts), calc_one displays
\* vcf = vcf_54b(density, temperature), v15 = max(0, base + correction) * vcf
\* and mass = v15 * density / 1000 on the selected axis, for every level,
\* level 0 in ullage mode (a full tank) included.
C29_FuelRowOutputs ==
    (CalcShown /\ OutVolumes # NULL /\ ~vcf_54b_raises(out.args.dens)) => OutFuelRow

\* at every level but 0 in ullage mode the row shows these outputs
C29_OutputsButUllageZero ==
    (CalcShown /\ OutVolumes # NULL /\ ~vcf_54b_raises(out.args.dens)
       /\ ~OutUllageZero) => OutFuelRow

\* ------------------------------------------------------------------
\* Reload of the calibration table

ReadShown == pc = "done" /\ out.cmd = "read"

\* what the invocation returns on the complete table (the table before the
\* reload and the table the reload is to build hold the same CSVs)
OutOnComplete ==
    ops_compute_volumes(LoadedRows, out.args.name, out.args.trim,
                        out.args.sounding, out.args.ullage, out.args.heel)

\* C30: while load_normalized_to_db.main runs, and after it stopped with an
\* error on a CSV, the table a pipeline invocation reads is the complete
\* calibration table, never an empty or partly loaded one, and a reading that
\* resolves on the complete table resolves to the same volumes.
C30_ReloadAtomic ==
    /\ readings = LoadedRows
    /\ (ReadShown /\ OutOnComplete # NULL) =>
          /\ out.status = "ok"
          /\ <<out.base, out.corr, out.total>> = OutOnComplete

\* a reload that runs to its end leaves the complete table
C30_CompleteWhenIdle == loader.at = "idle" => readings = LoadedRows

====
